---------------------------- MODULE Spec2Model ----------------------------
(***************************************************************************)
(* Model of the transcript route handler (POST) of the YouTube transcript  *)
(* tool: request validation, the acquisition orchestrator with its two     *)
(* adapters, the concurrent metadata lookup, the raw-text assembler, the    *)
(* chunker, the sequential chunk-rewrite loop and the event stream.         *)
(*                                                                         *)
(* Representation:                                                         *)
(*  - a string is a sequence of one-character strings;                     *)
(*  - a time in seconds is held as an integer number of milliseconds       *)
(*    (the code holds a float number of seconds);                          *)
(*  - an upstream reply (provider, YouTube, rewrite backend) is an input   *)
(*    drawn from a small set when the awaiting step resumes.               *)
(***************************************************************************)
EXTENDS Integers, Sequences, FiniteSets, TLC

VARIABLES
    env,          \* process.env: which credentials are configured
    request,      \* the body of the request POST received
    pc,           \* position of POST / ReadableStream.start
    response,     \* the HTTP response returned by POST
    events,       \* events enqueued on the stream controller, in order
    closed,       \* controller.close() has been called
    cancelled,    \* the consumer of the stream cancelled it
    videoId,      \* identifier resolved by extractVideoId
    tr,           \* the fetchTranscript promise: position, poll attempt, outcome
    mt,           \* the fetchVideoMeta promise: position, outcome
    calls,        \* log of invocations of adapters, metadata lookup and rewriter
    chunks,       \* chunks produced by chunkWords
    hasTimecodes, \* flag returned by buildRawText
    loopI,        \* index i of the chunk loop
    fn,           \* a helper of the route applied on its own: input and result
    client        \* the page: its React state and the handleSubmit calls in progress

vars == <<env, request, pc, response, events, closed, cancelled, videoId, tr, mt,
          calls, chunks, hasTimecodes, loopI, fn, client>>

-----------------------------------------------------------------------------
(* Bounds and program constants *)

\* WORDS_PER_CHUNK is 3000 in the source; the model scales it down so that
\* transcripts of a few words already span several chunks.
WORDS_PER_CHUNK == 2

\* for (let attempt = 0; attempt < 30; attempt++)
MAX_POLL_ATTEMPTS == 30

\* let lastMarkerAt = -61  (seconds)
INITIAL_LAST_MARKER == -61

\* item.offset - lastMarkerAt >= 60  (seconds)
MARKER_INTERVAL == 60

-----------------------------------------------------------------------------
(* Strings as character sequences *)

IsWs(c) == c \in {" ", "\n", "\t"}

Min(a, b) == IF a < b THEN a ELSE b

\* String.prototype.trim
RECURSIVE TrimStart(_)
TrimStart(s) == IF s # <<>> /\ IsWs(Head(s)) THEN TrimStart(Tail(s)) ELSE s

RECURSIVE TrimEnd(_)
TrimEnd(s) ==
    IF s # <<>> /\ IsWs(s[Len(s)]) THEN TrimEnd(SubSeq(s, 1, Len(s) - 1)) ELSE s

Trim(s) == TrimEnd(TrimStart(s))

\* text.replace(/\n/g, " ")
ReplaceNewlines(s) == [k \in 1..Len(s) |-> IF s[k] = "\n" THEN " " ELSE s[k]]

\* Array.prototype.join(sep) on an array of strings
RECURSIVE Join(_, _)
Join(parts, sep) ==
    IF parts = <<>> THEN <<>>
    ELSE IF Len(parts) = 1 THEN parts[1]
    ELSE parts[1] \o sep \o Join(Tail(parts), sep)

\* text.split(/\s+/): the pieces between maximal runs of whitespace; a leading
\* or trailing run yields an empty first or last piece, "" yields [""].
SplitWs(s) ==
    LET RECURSIVE go(_, _, _)
        go(k, cur, acc) ==
            IF k > Len(s) THEN Append(acc, cur)
            ELSE IF IsWs(s[k])
                 THEN IF k > 1 /\ IsWs(s[k - 1])
                      THEN go(k + 1, cur, acc)
                      ELSE go(k + 1, <<>>, Append(acc, cur))
                 ELSE go(k + 1, Append(cur, s[k]), acc)
    IN go(1, <<>>, <<>>)

Range(s) == {s[k] : k \in DOMAIN s}

\* the pieces of s between the occurrences of the character c
RECURSIVE SplitOn(_, _)
SplitOn(s, c) ==
    IF \E k \in 1..Len(s) : s[k] = c
    THEN LET k == CHOOSE i \in 1..Len(s) :
                      s[i] = c /\ \A j \in 1..(i - 1) : s[j] # c
         IN <<SubSeq(s, 1, k - 1)>> \o SplitOn(SubSeq(s, k + 1, Len(s)), c)
    ELSE <<s>>

\* String.prototype.startsWith
StartsWith(s, pre) == Len(s) >= Len(pre) /\ SubSeq(s, 1, Len(pre)) = pre

\* index of the first character of s that is in cs, Len(s) + 1 without one
IndexOfAny(s, cs) ==
    LET hits == {k \in 1..Len(s) : s[k] \in cs}
    IN IF hits = {} THEN Len(s) + 1
       ELSE CHOOSE k \in hits : \A j \in hits : k <= j

\* String.prototype.includes
Includes(s, sub) ==
    \E k \in 1..(Len(s) - Len(sub) + 1) : SubSeq(s, k, k + Len(sub) - 1) = sub

-----------------------------------------------------------------------------
(* Helpers of the route *)

\* Decimal digits of a non-negative integer (template-literal / String(n))
RECURSIVE Digits(_)
Digits(n) ==
    LET d == <<"0", "1", "2", "3", "4", "5", "6", "7", "8", "9">>
    IN IF n < 10 THEN <<d[n + 1]>> ELSE Digits(n \div 10) \o <<d[(n % 10) + 1]>>

\* String(n).padStart(2, "0")
PadStart2(n) == IF Len(Digits(n)) < 2 THEN <<"0">> \o Digits(n) ELSE Digits(n)

\* Variant: the minutes of the hour form are not padded
formatTimecodeMarker_NoPad(totalMs) ==
    LET s   == totalMs \div 1000
        h   == s \div 3600
        m   == (s % 3600) \div 60
        sec == s % 60
    IN IF h > 0
       THEN <<"[">> \o Digits(h) \o <<":">> \o Digits(m) \o <<":">>
                    \o PadStart2(sec) \o <<"]">>
       ELSE <<"[">> \o Digits(m) \o <<":">> \o PadStart2(sec) \o <<"]">>

\* formatTimecodeMarker(totalSeconds); the argument is in milliseconds
formatTimecodeMarker(totalMs) ==
    LET s   == totalMs \div 1000
        h   == s \div 3600
        m   == (s % 3600) \div 60
        sec == s % 60
    IN IF h > 0
       THEN <<"[">> \o Digits(h) \o <<":">> \o PadStart2(m) \o <<":">>
                    \o PadStart2(sec) \o <<"]">>
       ELSE <<"[">> \o Digits(m) \o <<":">> \o PadStart2(sec) \o <<"]">>

\* Variant: every cue gets a marker
buildRawText_MarkEveryCue(items) ==
    LET hasTimingData ==
            Len(items) > 1 /\ \E k \in 1..Len(items) : items[k].offset > 0
        RECURSIVE build(_, _)
        build(k, parts) ==
            IF k > Len(items) THEN parts
            ELSE LET item   == items[k]
                     parts1 == Append(parts, formatTimecodeMarker(item.offset))
                     text   == Trim(ReplaceNewlines(item.text))
                 IN build(k + 1, IF text # <<>> THEN Append(parts1, text) ELSE parts1)
    IN IF ~hasTimingData
       THEN [text |-> Join([k \in 1..Len(items) |-> ReplaceNewlines(items[k].text)],
                           <<" ">>),
             hasTimecodes |-> FALSE]
       ELSE [text |-> Join(build(1, <<>>), <<" ">>), hasTimecodes |-> TRUE]

\* Variant: timing data is any cue with an offset, a single cue included
buildRawText_AnyOffset(items) ==
    LET hasTimingData == \E k \in 1..Len(items) : items[k].offset > 0
        RECURSIVE build(_, _, _)
        build(k, lastMarkerAt, parts) ==
            IF k > Len(items) THEN parts
            ELSE LET item   == items[k]
                     mark   == item.offset - lastMarkerAt >= MARKER_INTERVAL * 1000
                     parts1 == IF mark
                               THEN Append(parts, formatTimecodeMarker(item.offset))
                               ELSE parts
                     text   == Trim(ReplaceNewlines(item.text))
                     parts2 == IF text # <<>> THEN Append(parts1, text) ELSE parts1
                 IN build(k + 1, IF mark THEN item.offset ELSE lastMarkerAt, parts2)
    IN IF ~hasTimingData
       THEN [text |-> Join([k \in 1..Len(items) |-> ReplaceNewlines(items[k].text)],
                           <<" ">>),
             hasTimecodes |-> FALSE]
       ELSE [text |-> Join(build(1, INITIAL_LAST_MARKER * 1000, <<>>), <<" ">>),
             hasTimecodes |-> TRUE]

\* Variant: a marker shows the minute boundary its cue falls on
buildRawText_MinuteBoundary(items) ==
    LET hasTimingData ==
            Len(items) > 1 /\ \E k \in 1..Len(items) : items[k].offset > 0
        RECURSIVE build(_, _, _)
        build(k, lastMarkerAt, parts) ==
            IF k > Len(items) THEN parts
            ELSE LET item   == items[k]
                     mark   == item.offset - lastMarkerAt >= MARKER_INTERVAL * 1000
                     minute == (item.offset \div (MARKER_INTERVAL * 1000))
                                  * (MARKER_INTERVAL * 1000)
                     parts1 == IF mark
                               THEN Append(parts, formatTimecodeMarker(minute))
                               ELSE parts
                     text   == Trim(ReplaceNewlines(item.text))
                     parts2 == IF text # <<>> THEN Append(parts1, text) ELSE parts1
                 IN build(k + 1, IF mark THEN item.offset ELSE lastMarkerAt, parts2)
    IN IF ~hasTimingData
       THEN [text |-> Join([k \in 1..Len(items) |-> ReplaceNewlines(items[k].text)],
                           <<" ">>),
             hasTimecodes |-> FALSE]
       ELSE [text |-> Join(build(1, INITIAL_LAST_MARKER * 1000, <<>>), <<" ">>),
             hasTimecodes |-> TRUE]

\* buildRawText(items)
buildRawText(items) ==
    LET hasTimingData ==
            Len(items) > 1 /\ \E k \in 1..Len(items) : items[k].offset > 0
        RECURSIVE build(_, _, _)
        build(k, lastMarkerAt, parts) ==
            IF k > Len(items) THEN parts
            ELSE LET item   == items[k]
                     mark   == item.offset - lastMarkerAt >= MARKER_INTERVAL * 1000
                     parts1 == IF mark
                               THEN Append(parts, formatTimecodeMarker(item.offset))
                               ELSE parts
                     text   == Trim(ReplaceNewlines(item.text))
                     parts2 == IF text # <<>> THEN Append(parts1, text) ELSE parts1
                 IN build(k + 1, IF mark THEN item.offset ELSE lastMarkerAt, parts2)
    IN IF ~hasTimingData
       THEN [text |-> Join([k \in 1..Len(items) |-> ReplaceNewlines(items[k].text)],
                           <<" ">>),
             hasTimecodes |-> FALSE]
       ELSE [text |-> Join(build(1, INITIAL_LAST_MARKER * 1000, <<>>), <<" ">>),
             hasTimecodes |-> TRUE]

\* Variant: the loop index advances one word too far after every chunk
chunkWords_SkipWord(text, wordsPerChunk) ==
    LET words == SplitWs(text)
        RECURSIVE loop(_, _)
        loop(k, acc) ==
            IF k < Len(words)
            THEN loop(k + wordsPerChunk + 1,
                      Append(acc,
                             Join(SubSeq(words, k + 1,
                                         Min(k + wordsPerChunk, Len(words))),
                                  <<" ">>)))
            ELSE acc
    IN loop(0, <<>>)

\* chunkWords(text, wordsPerChunk)
chunkWords(text, wordsPerChunk) ==
    LET words == SplitWs(text)
        RECURSIVE loop(_, _)
        loop(k, acc) ==
            IF k < Len(words)
            THEN loop(k + wordsPerChunk,
                      Append(acc,
                             Join(SubSeq(words, k + 1,
                                         Min(k + wordsPerChunk, Len(words))),
                                  <<" ">>)))
            ELSE acc
    IN loop(0, <<>>)

\* decodeHtmlEntities(text): the seven replacements, applied in this order
RECURSIVE ReplaceAll(_, _, _)
ReplaceAll(s, from, to) ==
    IF Len(s) < Len(from) THEN s
    ELSE IF SubSeq(s, 1, Len(from)) = from
         THEN to \o ReplaceAll(SubSeq(s, Len(from) + 1, Len(s)), from, to)
         ELSE <<Head(s)>> \o ReplaceAll(Tail(s), from, to)

decodeHtmlEntities(text) ==
    LET r1 == ReplaceAll(text, <<"&", "a", "m", "p", ";">>, <<"&">>)
        r2 == ReplaceAll(r1, <<"&", "l", "t", ";">>, <<"<">>)
        r3 == ReplaceAll(r2, <<"&", "g", "t", ";">>, <<">">>)
        r4 == ReplaceAll(r3, <<"&", "q", "u", "o", "t", ";">>, <<"\"">>)
        r5 == ReplaceAll(r4, <<"&", "#", "3", "9", ";">>, <<"'">>)
        r6 == ReplaceAll(r5, <<"&", "#", "x", "2", "7", ";">>, <<"'">>)
    IN ReplaceAll(r6, <<"&", "a", "p", "o", "s", ";">>, <<"'">>)

\* extractVideoId(url). The parsed URL (hostname, pathname, the v parameter) is
\* the input; a value new URL() rejects, or a non-string, takes the catch.
\* The result is null or a string (possibly empty).
EmbedMatch(pathname) ==
    LET pre    == <<"/", "e", "m", "b", "e", "d", "/">>
        ok(k)  == /\ SubSeq(pathname, k, k + 6) = pre
                  /\ pathname[k + 7] \notin {"/", "?"}
        starts == {k \in 1..(Len(pathname) - 7) : ok(k)}
        first  == CHOOSE k \in starts : \A j \in starts : k <= j
        stops  == {j \in (first + 7)..Len(pathname) : pathname[j] \in {"/", "?"}}
        last   == IF stops = {} THEN Len(pathname)
                  ELSE (CHOOSE j \in stops : \A q \in stops : j <= q) - 1
    IN IF starts = {} THEN [isNull |-> TRUE, id |-> <<>>]
       ELSE [isNull |-> FALSE, id |-> SubSeq(pathname, first + 7, last)]

\* Variant: the /embed/ path is looked at before the v parameter
extractVideoId_EmbedFirst(url) ==
    IF url.kind # "url" THEN [isNull |-> TRUE, id |-> <<>>]
    ELSE IF url.hostname = <<"y", "o", "u", "t", "u", ".", "b", "e">>
         THEN [isNull |-> FALSE, id |-> Tail(url.pathname)]
    ELSE IF Includes(url.hostname,
                     <<"y", "o", "u", "t", "u", "b", "e", ".", "c", "o", "m">>)
         THEN IF ~EmbedMatch(url.pathname).isNull
              THEN EmbedMatch(url.pathname)
              ELSE IF url.hasV /\ url.v # <<>>
                   THEN [isNull |-> FALSE, id |-> url.v]
                   ELSE [isNull |-> TRUE, id |-> <<>>]
    ELSE [isNull |-> TRUE, id |-> <<>>]

\* extractVideoId(url), from the parsed URL on
extractVideoId(url) ==
    IF url.kind # "url" THEN [isNull |-> TRUE, id |-> <<>>]
    ELSE IF url.hostname = <<"y", "o", "u", "t", "u", ".", "b", "e">>
         THEN [isNull |-> FALSE, id |-> Tail(url.pathname)]
    ELSE IF Includes(url.hostname,
                     <<"y", "o", "u", "t", "u", "b", "e", ".", "c", "o", "m">>)
         THEN IF url.hasV /\ url.v # <<>>
              THEN [isNull |-> FALSE, id |-> url.v]
              ELSE EmbedMatch(url.pathname)
    ELSE [isNull |-> TRUE, id |-> <<>>]


-----------------------------------------------------------------------------
(* Values *)

NoMeta == [present |-> FALSE, title |-> "", durationSeconds |-> 0]
Meta(title, dur) == [present |-> TRUE, title |-> title, durationSeconds |-> dur]

NoErr == [name |-> "", code |-> "", status |-> 0, message |-> ""]
Err(name, message) == [name |-> name, code |-> "", status |-> 0, message |-> message]
SupadataError(code) ==
    [name |-> "SupadataError", code |-> code, status |-> 0, message |-> code]
ApiError(name, status) ==
    [name |-> name, code |-> "", status |-> status, message |-> "api error"]

\* Error types of the route (constructors take the video id; the message is
\* kept as the class's fixed prefix)
VideoUnavailableError == Err("VideoUnavailableError", "Video unavailable")
TranscriptsDisabledError == Err("TranscriptsDisabledError", "Transcripts disabled")
TranscriptsNotAvailableError ==
    Err("TranscriptsNotAvailableError", "No transcripts available")
IpBlockedError == Err("IpBlockedError", "IP blocked by YouTube")
PoTokenRequiredError == Err("PoTokenRequiredError", "PO Token required")

Cue(text, offset) == [text |-> text, offset |-> offset, duration |-> 0]

\* Events written by sendEvent
EvStatus == [type |-> "status", message |-> "Fetching transcript..."]
EvMeta(m) ==
    [type |-> "meta", title |-> m.title, durationSeconds |-> m.durationSeconds]
EvInfo(n, wc, htc) ==
    [type |-> "info", totalChunks |-> n, wordCount |-> wc, hasTimecodes |-> htc]
EvProgress(cur, tot) == [type |-> "progress", current |-> cur, total |-> tot]
EvChunk(idx, text) == [type |-> "chunk", index |-> idx, text |-> text]
EvDone == [type |-> "done"]
EvError(msg) == [type |-> "error", message |-> msg]

\* sendEvent(controller, encoder, data): controller.enqueue
sendEvent(evts, data) == Append(evts, data)

\* Invocation log: op, the chunk index (rewriter only), the number of events
\* written when the invocation started and when it settled (-1: in flight),
\* and how it settled
StartCall(log, op, index, at) ==
    Append(log, [op |-> op, index |-> index, startAt |-> at, endAt |-> -1,
                 outcome |-> "pending", err |-> NoErr])
EndCall(log, op, at, err) ==
    [k \in DOMAIN log |->
        IF log[k].op = op /\ log[k].endAt = -1
        THEN [log[k] EXCEPT !.endAt = at,
                            !.outcome = IF err = NoErr THEN "returned" ELSE "threw",
                            !.err = err]
        ELSE log[k]]

-----------------------------------------------------------------------------
(* Inputs *)

HostShort     == <<"y", "o", "u", "t", "u", ".", "b", "e">>
HostCanonical == <<"w", "w", "w", ".", "y", "o", "u", "t", "u", "b", "e", ".", "c", "o", "m">>
HostOther     == <<"v", "i", "m", "e", "o", ".", "c", "o", "m">>

Url(host, path, hasV, v) ==
    [kind |-> "url", hostname |-> host, pathname |-> path, hasV |-> hasV, v |-> v]

Urls ==
    { [kind |-> "missing"], [kind |-> "nonString"], [kind |-> "unparseable"],
      Url(HostShort, <<"/", "a", "b">>, FALSE, <<>>),
      Url(HostShort, <<"/">>, FALSE, <<>>),
      Url(HostCanonical, <<"/", "w", "a", "t", "c", "h">>, TRUE, <<"a", "b">>),
      Url(HostCanonical, <<"/", "w", "a", "t", "c", "h">>, TRUE, <<>>),
      Url(HostCanonical, <<"/", "e", "m", "b", "e", "d", "/", "a", "b">>, FALSE, <<>>),
      Url(HostCanonical, <<"/", "e", "m", "b", "e", "d", "/">>, FALSE, <<>>),
      Url(HostOther, <<"/", "a", "b">>, TRUE, <<"a", "b">>) }

\* Request bodies: not JSON, the JSON value null, or an object with its url
\* and, as the page sends it, with or without a supadataKey
Bodies ==
    { [kind |-> "unparseable"], [kind |-> "null"] }
    \cup { [kind |-> "object", url |-> u, supadataKey |-> k] :
              u \in Urls, k \in BOOLEAN }

Envs == [ANTHROPIC_API_KEY : BOOLEAN, SUPADATA_API_KEY : BOOLEAN]

CueLists ==
    { <<>>,
      << Cue(<<" ">>, 0) >>,
      << Cue(<<"a", " ", "b">>, 5000) >>,
      << Cue(<<"a">>, 0), Cue(<<"b">>, 0) >>,
      << Cue(<<"a">>, 0), Cue(<<"b">>, 65000) >>,
      << Cue(<<" ">>, 0), Cue(<<"a", "\n", "b">>, 10000),
         Cue(<<"c", "&", "a", "m", "p", ";", "d">>, 59999) >>,
      << Cue(<<"a">>, 0), Cue(<<"b", " ", "c">>, 30500), Cue(<<"d">>, 3600000) >> }

Blobs ==
    { <<>>, <<" ">>, <<" ", "a", " ", "b", " ", "c", "\n">>, <<"a", "\n", "b">> }

\* content of a provider result: a string, an array of cues, or anything else
Contents ==
    { [type |-> "string", text |-> b] : b \in Blobs }
    \cup { [type |-> "array", items |-> l] : l \in CueLists }
    \cup { [type |-> "other"] }

SupadataErrorCodes ==
    { "transcript-unavailable", "not-found", "limit-exceeded", "unauthorized" }

PrimaryThrows ==
    { SupadataError(c) : c \in SupadataErrorCodes } \cup { Err("Error", "fetch failed") }

Titles == { "", "T" }
Duration == 212

Track(lang, kind, xpe) == [languageCode |-> lang, kind |-> kind, xpe |-> xpe]
TrackLists ==
    { <<>>,
      << Track("en", "asr", TRUE) >>,
      << Track("de", "asr", FALSE), Track("en", "asr", FALSE), Track("en", "", FALSE) >>,
      << Track("en", "", TRUE), Track("fr", "asr", FALSE), Track("de", "", FALSE) >> }

RewriterTexts == { <<"X">>, <<" ", "Y", "\n">> }
RewriterThrows ==
    { ApiError("RateLimitError", 429), ApiError("AuthenticationError", 401),
      ApiError("InternalServerError", 500), ApiError("InternalServerError", 529),
      ApiError("APIError", 402), ApiError("APIConnectionError", 0),
      Err("Error", "boom") }


-----------------------------------------------------------------------------
(* Request validation *)

NoRequest == [kind |-> "none"]

\* no helper has been applied on its own
NoCall == [op |-> "none"]

\* the page after mount: useState initial values, no submission yet. reqs
\* holds one record per call of handleSubmit that went past the url test;
\* setter is the call that set the status last (0: none).
PageInit ==
    [status |-> [kind |-> "idle"], transcript |-> <<>>,
     hasTimecodes |-> FALSE, videoMeta |-> NoMeta, setter |-> 0, reqs |-> <<>>]
NoResponse == [status |-> 0, kind |-> "none", error |-> ""]

Reject(status, error) ==
    [accepted |-> FALSE, status |-> status, error |-> error, videoId |-> <<>>]

\* Variant: the credential check moved ahead of the checks of the url
Validation_KeyFirst(body, e) ==
    IF body.kind # "object" THEN Reject(400, "Invalid request body")
    ELSE IF ~e.ANTHROPIC_API_KEY
    THEN Reject(500, "Server configuration error: missing API key")
    ELSE IF body.url.kind = "missing" THEN Reject(400, "URL is required")
    ELSE LET id == extractVideoId(body.url)
         IN IF id.isNull \/ id.id = <<>> THEN Reject(400, "Invalid YouTube URL")
            ELSE [accepted |-> TRUE, status |-> 200, error |-> "",
                  videoId |-> id.id]

\* POST, the checks before the stream is constructed
Validation(body, e) ==
    IF body.kind # "object" THEN Reject(400, "Invalid request body")
    ELSE IF body.url.kind = "missing" THEN Reject(400, "URL is required")
    ELSE LET id == extractVideoId(body.url)
         IN IF id.isNull \/ id.id = <<>> THEN Reject(400, "Invalid YouTube URL")
            ELSE IF ~e.ANTHROPIC_API_KEY
                 THEN Reject(500, "Server configuration error: missing API key")
                 ELSE [accepted |-> TRUE, status |-> 200, error |-> "",
                       videoId |-> id.id]

-----------------------------------------------------------------------------
(* Acquisition orchestrator and primary adapter *)

TrInit ==
    [pc |-> "none", attempt |-> 0, status |-> "pending", items |-> <<>>,
     meta |-> NoMeta, reason |-> NoErr, primaryErr |-> NoErr,
     track |-> Track("", "", FALSE)]

\* The promise settles: the locals of the adapter go out of scope
Fulfil(t, items, meta) ==
    [t EXCEPT !.pc = "none", !.attempt = 0, !.track = TrInit.track,
              !.status = "fulfilled", !.items = items, !.meta = meta]
RejectWith(t, err) ==
    [t EXCEPT !.pc = "none", !.attempt = 0, !.track = TrInit.track,
              !.status = "rejected", !.reason = err, !.meta = NoMeta]

\* Variant: the primary adapter is tried whether or not a credential is set
StartTranscript_AlwaysPrimary(e, log, at) ==
    [tr |-> [TrInit EXCEPT !.pc = "sd_request"],
     calls |-> StartCall(log, "fetchViaSupadata", -1, at)]

\* fetchTranscript up to its first await: the primary adapter when a credential
\* is configured, else the fallback adapter
StartTranscript(e, log, at) ==
    IF e.SUPADATA_API_KEY
    THEN [tr |-> [TrInit EXCEPT !.pc = "sd_request"],
          calls |-> StartCall(log, "fetchViaSupadata", -1, at)]
    ELSE [tr |-> [TrInit EXCEPT !.pc = "an_watch"],
          calls |-> StartCall(log, "fetchViaAndroid", -1, at)]

\* Variant: the cues of an array are returned without the filter
NormalizeContent_KeepBlank(content) ==
    IF content.type = "string"
    THEN LET text == Trim(content.text)
         IN IF text = <<>> THEN [ok |-> FALSE, items |-> <<>>]
            ELSE [ok |-> TRUE, items |-> << Cue(text, 0) >>]
    ELSE IF content.type = "array"
    THEN IF content.items = <<>> THEN [ok |-> FALSE, items |-> <<>>]
         ELSE [ok |-> TRUE, items |-> content.items]
    ELSE [ok |-> FALSE, items |-> <<>>]

\* fetchViaSupadata: normalisation of the result's content. c.offset / 1000 is
\* the provider's millisecond value in seconds, which the model holds as the
\* same count of milliseconds.
NormalizeContent(content) ==
    IF content.type = "string"
    THEN LET text == Trim(content.text)
         IN IF text = <<>> THEN [ok |-> FALSE, items |-> <<>>]
            ELSE [ok |-> TRUE, items |-> << Cue(text, 0) >>]
    ELSE IF content.type = "array"
    THEN LET nonBlank(c) == Trim(c.text) # <<>>
             items == SelectSeq(content.items, nonBlank)
         IN IF items = <<>> THEN [ok |-> FALSE, items |-> <<>>]
            ELSE [ok |-> TRUE, items |-> items]
    ELSE [ok |-> FALSE, items |-> <<>>]

\* Variant: every error other than the two definitive provider codes is
\* rethrown as it is instead of falling through
CatchPrimary_RethrowAll(err) ==
    IF err.name = "SupadataError" /\ err.code = "transcript-unavailable"
    THEN [rethrow |-> TRUE, err |-> TranscriptsDisabledError]
    ELSE IF err.name = "SupadataError" /\ err.code = "not-found"
    THEN [rethrow |-> TRUE, err |-> VideoUnavailableError]
    ELSE [rethrow |-> TRUE, err |-> err]

\* Variant: the definitive provider codes are not inspected
CatchPrimary_NoDefinitive(err) ==
    IF err.name \in {"TranscriptsDisabledError", "VideoUnavailableError"}
    THEN [rethrow |-> TRUE, err |-> err]
    ELSE [rethrow |-> FALSE, err |-> NoErr]

\* fetchTranscript, the catch around the primary adapter: rethrow (terminal)
\* or fall through to the fallback adapter
CatchPrimary(err) ==
    IF err.name = "SupadataError"
    THEN IF err.code = "transcript-unavailable"
         THEN [rethrow |-> TRUE, err |-> TranscriptsDisabledError]
         ELSE IF err.code = "not-found"
              THEN [rethrow |-> TRUE, err |-> VideoUnavailableError]
              ELSE [rethrow |-> FALSE, err |-> NoErr]
    ELSE IF err.name \in {"TranscriptsDisabledError", "VideoUnavailableError"}
         THEN [rethrow |-> TRUE, err |-> err]
         ELSE [rethrow |-> FALSE, err |-> NoErr]

\* The primary adapter threw err: fetchTranscript's catch, then the fallback
PrimaryFailed(t, log, at, err) ==
    LET c    == CatchPrimary(err)
        log1 == EndCall(log, "fetchViaSupadata", at, err)
    IN IF c.rethrow
       THEN [tr |-> [RejectWith(t, c.err) EXCEPT !.primaryErr = err], calls |-> log1]
       ELSE [tr |-> [t EXCEPT !.pc = "an_watch", !.attempt = 0, !.primaryErr = err],
             calls |-> StartCall(log1, "fetchViaAndroid", -1, at)]

\* The primary adapter has a result whose content is to be normalised
PrimaryContent(t, log, at, content) ==
    LET n == NormalizeContent(content)
    IN IF n.ok
       THEN [tr |-> Fulfil(t, n.items, NoMeta),
             calls |-> EndCall(log, "fetchViaSupadata", at, NoErr)]
       ELSE PrimaryFailed(t, log, at, TranscriptsNotAvailableError)

SupadataReplies ==
    { [kind |-> "throws", err |-> e] : e \in PrimaryThrows }
    \cup { [kind |-> "jobId"] }
    \cup { [kind |-> "content", content |-> c] : c \in Contents }

JobReplies ==
    { [kind |-> "throws", err |-> e] : e \in PrimaryThrows }
    \cup { [kind |-> "status", status |-> "completed", hasResult |-> TRUE,
            result |-> c] : c \in Contents }
    \cup { [kind |-> "status", status |-> st, hasResult |-> FALSE] :
              st \in {"completed", "failed", "active"} }

\* fetchViaSupadata after supadata.transcript(...) settled with reply: a job
\* handle enters the poll loop, content goes to the normalisation
OnTranscript(t, log, at, reply) ==
    IF reply.kind = "throws"
    THEN PrimaryFailed(t, log, at, reply.err)
    ELSE IF reply.kind = "jobId"
    THEN [tr |-> [t EXCEPT !.pc = "sd_poll", !.attempt = 0], calls |-> log]
    ELSE PrimaryContent(t, log, at, reply.content)

\* Variant: a job reported failed is polled again
OnJobStatus_IgnoreFailed(t, log, at, reply) ==
    IF reply.kind = "throws"
    THEN PrimaryFailed(t, log, at, reply.err)
    ELSE IF reply.status = "completed" /\ reply.hasResult
    THEN PrimaryContent(t, log, at, reply.result)
    ELSE IF t.attempt + 1 < MAX_POLL_ATTEMPTS
    THEN [tr |-> [t EXCEPT !.attempt = @ + 1], calls |-> log]
    ELSE PrimaryFailed(t, log, at, TranscriptsNotAvailableError)

\* Variant: the loop is left after its last turn without giving up
OnJobStatus_NoGiveUp(t, log, at, reply) ==
    IF reply.kind = "throws"
    THEN PrimaryFailed(t, log, at, reply.err)
    ELSE IF reply.status = "completed" /\ reply.hasResult
    THEN PrimaryContent(t, log, at, reply.result)
    ELSE IF reply.status = "failed"
    THEN PrimaryFailed(t, log, at, TranscriptsNotAvailableError)
    ELSE [tr |-> [t EXCEPT !.attempt = @ + 1], calls |-> log]

\* One turn of the poll loop after getJobStatus settled with reply; the last
\* turn leaves the loop with the job handle still in result
OnJobStatus(t, log, at, reply) ==
    IF reply.kind = "throws"
    THEN PrimaryFailed(t, log, at, reply.err)
    ELSE IF reply.status = "completed" /\ reply.hasResult
    THEN PrimaryContent(t, log, at, reply.result)
    ELSE IF reply.status = "failed"
    THEN PrimaryFailed(t, log, at, TranscriptsNotAvailableError)
    ELSE IF t.attempt + 1 < MAX_POLL_ATTEMPTS
    THEN [tr |-> [t EXCEPT !.attempt = @ + 1], calls |-> log]
    ELSE PrimaryFailed(t, log, at, TranscriptsNotAvailableError)

\* supadata.transcript(...) settles
SupadataTranscript(reply) ==
    /\ pc = "allSettled" /\ tr.pc = "sd_request"
    /\ LET r == OnTranscript(tr, calls, Len(events), reply)
       IN tr' = r.tr /\ calls' = r.calls
    /\ UNCHANGED <<cancelled, client, fn, env, request, pc, response, events, closed, videoId, mt,
                   chunks, hasTimecodes, loopI>>

\* One turn of the poll loop: the wait, then getJobStatus settles
SupadataJobStatus(reply) ==
    /\ pc = "allSettled" /\ tr.pc = "sd_poll" /\ tr.attempt < MAX_POLL_ATTEMPTS
    /\ LET r == OnJobStatus(tr, calls, Len(events), reply)
       IN tr' = r.tr /\ calls' = r.calls
    /\ UNCHANGED <<cancelled, client, fn, env, request, pc, response, events, closed, videoId, mt,
                   chunks, hasTimecodes, loopI>>


-----------------------------------------------------------------------------
(* Fallback adapter *)

\* Array.prototype.find as an index: the first element in S, 0 when none
FirstIn(S) == IF S = {} THEN 0 ELSE CHOOSE k \in S : \A j \in S : k <= j

\* Variant: a manual track of any language is preferred to an auto-generated
\* English one
SelectTrack_ManualFirst(usable) ==
    LET manualEn == FirstIn({k \in 1..Len(usable) :
                        usable[k].languageCode = "en" /\ usable[k].kind # "asr"})
        anyEn    == FirstIn({k \in 1..Len(usable) : usable[k].languageCode = "en"})
        manual   == FirstIn({k \in 1..Len(usable) : usable[k].kind # "asr"})
    IN IF manualEn # 0 THEN usable[manualEn]
       ELSE IF manual # 0 THEN usable[manual]
       ELSE IF anyEn # 0 THEN usable[anyEn]
       ELSE usable[1]

\* usable.find(...) ?? usable.find(...) ?? usable.find(...) ?? usable[0]
SelectTrack(usable) ==
    LET manualEn == FirstIn({k \in 1..Len(usable) :
                        usable[k].languageCode = "en" /\ usable[k].kind # "asr"})
        anyEn    == FirstIn({k \in 1..Len(usable) : usable[k].languageCode = "en"})
        manual   == FirstIn({k \in 1..Len(usable) : usable[k].kind # "asr"})
    IN IF manualEn # 0 THEN usable[manualEn]
       ELSE IF anyEn # 0 THEN usable[anyEn]
       ELSE IF manual # 0 THEN usable[manual]
       ELSE usable[1]

\* Variant: the tracks that need a PO Token stay in the list
PickTrack_NoFilter(captionTracks) ==
    IF captionTracks = <<>>
    THEN [err |-> TranscriptsDisabledError, track |-> Track("", "", FALSE)]
    ELSE [err |-> NoErr, track |-> SelectTrack(captionTracks)]

\* fetchViaAndroid, from the track list of the player response to the track
\* to fetch; xpe is baseUrl?.includes("&exp=xpe"); a missing list is <<>>
PickTrack(captionTracks) ==
    LET usable == SelectSeq(captionTracks, LAMBDA t : ~t.xpe)
    IN IF captionTracks = <<>>
       THEN [err |-> TranscriptsDisabledError, track |-> Track("", "", FALSE)]
       ELSE IF usable = <<>>
       THEN [err |-> PoTokenRequiredError, track |-> Track("", "", FALSE)]
       ELSE [err |-> NoErr, track |-> SelectTrack(usable)]

AndroidFailed(t, log, at, err) ==
    [tr |-> RejectWith(t, err), calls |-> EndCall(log, "fetchViaAndroid", at, err)]

WatchReplies ==
    { [kind |-> "throws"] }
    \cup { [kind |-> "res", ok |-> o, recaptcha |-> c] : o \in BOOLEAN, c \in BOOLEAN }

PlayerReplies ==
    { [kind |-> "throws"] }
    \cup { [kind |-> "res", ok |-> FALSE, status |-> "", reasonBot |-> FALSE,
            title |-> "", captionTracks |-> <<>>] }
    \cup { [kind |-> "res", ok |-> TRUE, status |-> st, reasonBot |-> b,
            title |-> "", captionTracks |-> <<>>] :
              st \in {"ERROR", "LOGIN_REQUIRED"}, b \in BOOLEAN }
    \cup { [kind |-> "res", ok |-> TRUE, status |-> st, reasonBot |-> FALSE,
            title |-> ti, captionTracks |-> tl] :
              st \in {"", "OK"}, ti \in Titles, tl \in TrackLists }

XmlReplies ==
    { [kind |-> "throws"] } \cup { [kind |-> "res", ok |-> FALSE, entries |-> <<>>] }
    \cup { [kind |-> "res", ok |-> TRUE, entries |-> l] : l \in CueLists }

\* fetchViaAndroid after the fetch of the watch page settled with reply
OnWatch(t, log, at, reply) ==
    IF reply.kind = "throws"
    THEN AndroidFailed(t, log, at, Err("TypeError", "fetch failed"))
    ELSE IF ~reply.ok
    THEN AndroidFailed(t, log, at, VideoUnavailableError)
    ELSE IF reply.recaptcha
    THEN AndroidFailed(t, log, at, IpBlockedError)
    ELSE [tr |-> [t EXCEPT !.pc = "an_player"], calls |-> log]

\* fetchViaAndroid after the fetch of the player API settled with reply:
\* playability, metadata and track selection
OnPlayer(t, log, at, reply) ==
    LET pick == PickTrack(reply.captionTracks)
    IN IF reply.kind = "throws"
       THEN AndroidFailed(t, log, at, Err("TypeError", "fetch failed"))
       ELSE IF ~reply.ok
       THEN AndroidFailed(t, log, at, VideoUnavailableError)
       ELSE IF reply.status # "" /\ reply.status # "OK"
       THEN IF reply.reasonBot
            THEN AndroidFailed(t, log, at, IpBlockedError)
            ELSE AndroidFailed(t, log, at, VideoUnavailableError)
       ELSE IF pick.err # NoErr
       THEN AndroidFailed(t, log, at, pick.err)
       ELSE [tr |-> [t EXCEPT !.pc = "an_xml",
                              !.track = pick.track,
                              !.meta = IF reply.title # ""
                                       THEN Meta(reply.title, Duration)
                                       ELSE NoMeta],
             calls |-> log]

\* Step 1: the watch page
AndroidWatch(reply) ==
    /\ pc = "allSettled" /\ tr.pc = "an_watch"
    /\ LET r == OnWatch(tr, calls, Len(events), reply)
       IN tr' = r.tr /\ calls' = r.calls
    /\ UNCHANGED <<cancelled, client, fn, env, request, pc, response, events, closed, videoId, mt,
                   chunks, hasTimecodes, loopI>>

\* Step 2: the player API, metadata and track selection
AndroidPlayer(reply) ==
    /\ pc = "allSettled" /\ tr.pc = "an_player"
    /\ LET r == OnPlayer(tr, calls, Len(events), reply)
       IN tr' = r.tr /\ calls' = r.calls
    /\ UNCHANGED <<cancelled, client, fn, env, request, pc, response, events, closed, videoId, mt,
                   chunks, hasTimecodes, loopI>>

\* Step 3: the caption document; entries are the matches of the cue pattern
AndroidXml(reply) ==
    /\ pc = "allSettled" /\ tr.pc = "an_xml"
    /\ LET at == Len(events)
           decoded == [k \in 1..Len(reply.entries) |->
                          [reply.entries[k] EXCEPT !.text = decodeHtmlEntities(@)]]
           items == SelectSeq(decoded, LAMBDA c : Trim(c.text) # <<>>)
           r  == IF reply.kind = "throws"
                 THEN AndroidFailed(tr, calls, at, Err("TypeError", "fetch failed"))
                 ELSE IF ~reply.ok \/ items = <<>>
                 THEN AndroidFailed(tr, calls, at, TranscriptsNotAvailableError)
                 ELSE [tr |-> Fulfil(tr, items, tr.meta),
                       calls |-> EndCall(calls, "fetchViaAndroid", at, NoErr)]
       IN tr' = r.tr /\ calls' = r.calls
    /\ UNCHANGED <<cancelled, client, fn, env, request, pc, response, events, closed, videoId, mt,
                   chunks, hasTimecodes, loopI>>

-----------------------------------------------------------------------------
(* Metadata lookup *)

MetaReplies ==
    { [kind |-> "throws"], [kind |-> "res", ok |-> FALSE, title |-> ""] }
    \cup { [kind |-> "res", ok |-> TRUE, title |-> ti] : ti \in Titles }

MetaHasTitle(reply) == reply.kind = "res" /\ reply.ok /\ reply.title # ""

\* fetchVideoMeta: the mobile-client endpoint
MetaInnertube(reply) ==
    /\ pc = "allSettled" /\ mt.pc = "innertube"
    /\ IF MetaHasTitle(reply)
       THEN /\ mt' = [pc |-> "none", status |-> "fulfilled",
                      value |-> Meta(reply.title, Duration)]
            /\ calls' = EndCall(calls, "fetchVideoMeta", Len(events), NoErr)
       ELSE /\ mt' = [mt EXCEPT !.pc = "oembed"]
            /\ calls' = calls
    /\ UNCHANGED <<cancelled, client, fn, env, request, pc, response, events, closed, videoId, tr,
                   chunks, hasTimecodes, loopI>>

\* fetchVideoMeta: the oEmbed endpoint, title only; null when it fails too
MetaOembed(reply) ==
    /\ pc = "allSettled" /\ mt.pc = "oembed"
    /\ mt' = [pc |-> "none", status |-> "fulfilled",
              value |-> IF MetaHasTitle(reply) THEN Meta(reply.title, 0) ELSE NoMeta]
    /\ calls' = EndCall(calls, "fetchVideoMeta", Len(events), NoErr)
    /\ UNCHANGED <<cancelled, client, fn, env, request, pc, response, events, closed, videoId, tr,
                   chunks, hasTimecodes, loopI>>


-----------------------------------------------------------------------------
(* Route handler: the stream *)

\* Variant: the metadata of the transcript path is preferred to the lookup's
SelectMeta_PreferIncidental(m, t) ==
    IF t.status = "fulfilled" /\ t.meta.present THEN t.meta
    ELSE IF m.status = "fulfilled" THEN m.value
    ELSE NoMeta

\* POST, choice of the metadata to report
SelectMeta(m, t) ==
    IF m.status = "fulfilled" /\ m.value.present THEN m.value
    ELSE IF t.status = "fulfilled" THEN t.meta
    ELSE NoMeta

\* Variant: every acquisition failure gets the generic message
AcquisitionMessage_Generic(err) ==
    IF err.name = "IpBlockedError"
    THEN <<"YouTube is blocking this server's requests.">>
    ELSE <<"Could not fetch transcript: ", err.message>>

\* POST, user message of an acquisition failure
AcquisitionMessage(err) ==
    IF err.name = "IpBlockedError"
    THEN <<"YouTube is blocking this server's requests.">>
    ELSE IF err.name = "PoTokenRequiredError"
    THEN <<"YouTube requires a verification token for this video's transcript.">>
    ELSE IF err.name = "VideoUnavailableError"
    THEN <<"This video is unavailable (it may be private, deleted, or region-locked).">>
    ELSE IF err.name = "TranscriptsDisabledError"
    THEN <<"Transcripts are disabled for this video.">>
    ELSE IF err.name = "TranscriptsNotAvailableError"
    THEN <<"No transcript is available for this video.">>
    ELSE <<"Could not fetch transcript: ", err.message>>

\* instanceof over the SDK's error classes
IsAPIError(err) ==
    err.name \in {"APIError", "RateLimitError", "AuthenticationError",
                  "InternalServerError", "APIConnectionError"}

\* POST, user message of the outer catch
RewriteMessage(err) ==
    IF err.name = "RateLimitError"
    THEN <<"The AI service is temporarily busy due to high demand.">>
    ELSE IF err.name = "AuthenticationError"
    THEN <<"Server configuration error: the AI API key is invalid.">>
    ELSE IF err.name = "InternalServerError"
    THEN <<"The AI service encountered an internal error.">>
    ELSE IF IsAPIError(err) /\ err.status = 402
    THEN <<"The AI service is temporarily unavailable (credit limit reached).">>
    ELSE IF err.name = "APIConnectionError"
    THEN <<"Lost connection to the AI service.">>
    ELSE <<err.message>>

\* An error event followed by controller.close()
FailStream(evts, log, msg) ==
    [events |-> sendEvent(evts, EvError(msg)), calls |-> log, closed |-> TRUE,
     pc |-> "end"]

\* Variant: the loop stops one chunk early
LoopHead_OffByOne(evts, log, k, chs) ==
    IF k < Len(chs) - 1
    THEN LET e1 == sendEvent(evts, EvProgress(k + 1, Len(chs)))
         IN [events |-> e1, calls |-> StartCall(log, "cleanChunk", k, Len(e1)),
             closed |-> FALSE, pc |-> "cleanChunk"]
    ELSE [events |-> sendEvent(evts, EvDone), calls |-> log, closed |-> TRUE,
          pc |-> "end"]

\* Variant: the stream is closed without the done event
LoopHead_NoDone(evts, log, k, chs) ==
    IF k < Len(chs)
    THEN LET e1 == sendEvent(evts, EvProgress(k + 1, Len(chs)))
         IN [events |-> e1, calls |-> StartCall(log, "cleanChunk", k, Len(e1)),
             closed |-> FALSE, pc |-> "cleanChunk"]
    ELSE [events |-> evts, calls |-> log, closed |-> TRUE, pc |-> "end"]

\* Variant: the rewrite is started before its progress event is written
LoopHead_CallFirst(evts, log, k, chs) ==
    IF k < Len(chs)
    THEN [events |-> sendEvent(evts, EvProgress(k + 1, Len(chs))),
          calls |-> StartCall(log, "cleanChunk", k, Len(evts)),
          closed |-> FALSE, pc |-> "cleanChunk"]
    ELSE [events |-> sendEvent(evts, EvDone), calls |-> log, closed |-> TRUE,
          pc |-> "end"]

\* Variant: the rewrite of the following chunk is started together with the
\* rewrite of chunk k
LoopHead_Prefetch(evts, log, k, chs) ==
    IF k < Len(chs)
    THEN LET e1   == sendEvent(evts, EvProgress(k + 1, Len(chs)))
             log1 == StartCall(log, "cleanChunk", k, Len(e1))
         IN [events |-> e1,
             calls |-> IF k + 1 < Len(chs)
                       THEN StartCall(log1, "cleanChunk", k + 1, Len(e1))
                       ELSE log1,
             closed |-> FALSE, pc |-> "cleanChunk"]
    ELSE [events |-> sendEvent(evts, EvDone), calls |-> log, closed |-> TRUE,
          pc |-> "end"]

\* The chunk loop from its condition: progress and the start of the rewrite of
\* chunk k, or done and close after the last chunk
LoopHead(evts, log, k, chs) ==
    IF k < Len(chs)
    THEN LET e1 == sendEvent(evts, EvProgress(k + 1, Len(chs)))
         IN [events |-> e1, calls |-> StartCall(log, "cleanChunk", k, Len(e1)),
             closed |-> FALSE, pc |-> "cleanChunk"]
    ELSE [events |-> sendEvent(evts, EvDone), calls |-> log, closed |-> TRUE,
          pc |-> "end"]

\* The outer catch: an error event, then close
Catch(evts, log, err) == FailStream(evts, log, RewriteMessage(err))

\* Variant: the acquisition-failure branch leaves the stream open
OnRejected_NoClose(evts, log, err) ==
    [FailStream(evts, log, AcquisitionMessage(err)) EXCEPT !.closed = FALSE]

\* The acquisition-failure branch: an error event, close, return
OnRejected(evts, log, err) == FailStream(evts, log, AcquisitionMessage(err))

\* Variant: the meta event is written after the info event
OnSettled_MetaAfterInfo(evts, log, m, t) ==
    LET meta == SelectMeta(m, t)
        late(e) == IF meta.present THEN sendEvent(e, EvMeta(meta)) ELSE e
    IN IF t.status = "rejected"
       THEN [run |-> OnRejected(late(evts), log, t.reason), chunks |-> <<>>,
             hasTimecodes |-> FALSE]
       ELSE LET raw == buildRawText(t.items)
                chs == chunkWords(raw.text, WORDS_PER_CHUNK)
                e2  == sendEvent(evts, EvInfo(Len(chs), Len(SplitWs(raw.text)),
                                              raw.hasTimecodes))
            IN [run |-> LoopHead(late(e2), log, 0, chs), chunks |-> chs,
                hasTimecodes |-> raw.hasTimecodes]

\* Variant: a lookup without metadata ends the stream with an error
OnSettled_MetaRequired(evts, log, m, t) ==
    LET meta == SelectMeta(m, t)
        e1   == IF meta.present THEN sendEvent(evts, EvMeta(meta)) ELSE evts
    IN IF t.status = "rejected"
       THEN [run |-> OnRejected(e1, log, t.reason), chunks |-> <<>>,
             hasTimecodes |-> FALSE]
       ELSE IF t.items = <<>> \/ ~meta.present
       THEN [run |-> FailStream(e1, log,
                        <<"This video does not have a transcript available.">>),
             chunks |-> <<>>, hasTimecodes |-> FALSE]
       ELSE LET raw == buildRawText(t.items)
                chs == chunkWords(raw.text, WORDS_PER_CHUNK)
                e2  == sendEvent(e1, EvInfo(Len(chs), Len(SplitWs(raw.text)),
                                            raw.hasTimecodes))
            IN [run |-> LoopHead(e2, log, 0, chs), chunks |-> chs,
                hasTimecodes |-> raw.hasTimecodes]

\* Variant: the info event never announces timecodes
OnSettledWith_FlagOff(evts, log, m, t, wordsPerChunk) ==
    LET meta == SelectMeta(m, t)
        e1   == IF meta.present THEN sendEvent(evts, EvMeta(meta)) ELSE evts
    IN IF t.status = "rejected"
       THEN [run |-> OnRejected(e1, log, t.reason), chunks |-> <<>>,
             hasTimecodes |-> FALSE]
       ELSE IF t.items = <<>>
       THEN [run |-> FailStream(e1, log,
                        <<"This video does not have a transcript available.">>),
             chunks |-> <<>>, hasTimecodes |-> FALSE]
       ELSE LET raw == buildRawText(t.items)
                chs == chunkWords(raw.text, wordsPerChunk)
                e2  == sendEvent(e1, EvInfo(Len(chs), Len(SplitWs(raw.text)), FALSE))
            IN [run |-> LoopHead(e2, log, 0, chs), chunks |-> chs,
                hasTimecodes |-> raw.hasTimecodes]

\* After Promise.allSettled: meta, then failure, or info and the first chunk
OnSettledWith(evts, log, m, t, wordsPerChunk) ==
    LET meta == SelectMeta(m, t)
        e1   == IF meta.present THEN sendEvent(evts, EvMeta(meta)) ELSE evts
    IN IF t.status = "rejected"
       THEN [run |-> OnRejected(e1, log, t.reason), chunks |-> <<>>,
             hasTimecodes |-> FALSE]
       ELSE IF t.items = <<>>
       THEN [run |-> FailStream(e1, log,
                        <<"This video does not have a transcript available.">>),
             chunks |-> <<>>, hasTimecodes |-> FALSE]
       ELSE LET raw == buildRawText(t.items)
                chs == chunkWords(raw.text, wordsPerChunk)
                e2  == sendEvent(e1, EvInfo(Len(chs), Len(SplitWs(raw.text)),
                                            raw.hasTimecodes))
            IN [run |-> LoopHead(e2, log, 0, chs), chunks |-> chs,
                hasTimecodes |-> raw.hasTimecodes]

\* the same with the chunk size of the route
OnSettled(evts, log, m, t) == OnSettledWith(evts, log, m, t, WORDS_PER_CHUNK)

\* controller.enqueue on a stream its consumer cancelled throws; so does the
\* sendEvent of the outer catch, and start() ends there
Abandoned(evts, log) ==
    [events |-> evts, calls |-> log, closed |-> FALSE, pc |-> "end"]

\* ReadableStream.start resumes once both promises have settled; whatever
\* the outcome, the first thing it does that can fail is a sendEvent
Settled ==
    /\ pc = "allSettled" /\ tr.status # "pending" /\ mt.status # "pending"
    /\ LET r == IF cancelled
                THEN [run |-> Abandoned(events, calls), chunks |-> <<>>,
                      hasTimecodes |-> FALSE]
                ELSE OnSettled(events, calls, mt, tr)
       IN /\ events' = r.run.events
          /\ calls' = r.run.calls
          /\ closed' = r.run.closed
          /\ pc' = r.run.pc
          /\ chunks' = r.chunks
          /\ hasTimecodes' = r.hasTimecodes
    /\ loopI' = 0
    /\ UNCHANGED <<cancelled, client, fn, env, request, response, videoId, tr, mt>>

RewriterReplies ==
    { [kind |-> "throws", err |-> e] : e \in RewriterThrows }
    \cup { [kind |-> "message", content |-> <<>>] }
    \cup { [kind |-> "message", content |-> << [type |-> "tool_use", text |-> <<>>] >>] }
    \cup { [kind |-> "message", content |-> << [type |-> "text", text |-> t] >>] :
              t \in RewriterTexts }

\* Variant: a first content block that is not text is an exception
cleanChunk_NonTextThrows(chunk, reply) ==
    IF reply.kind = "throws" THEN [threw |-> TRUE, err |-> reply.err, text |-> <<>>]
    ELSE IF reply.content = <<>> \/ reply.content[1].type # "text"
    THEN [threw |-> TRUE, text |-> <<>>,
          err |-> Err("TypeError", "Cannot read properties of undefined")]
    ELSE [threw |-> FALSE, err |-> NoErr, text |-> Trim(reply.content[1].text)]

\* cleanChunk from the backend's reply on: the cleaned text, or the exception
cleanChunk(chunk, reply) ==
    IF reply.kind = "throws" THEN [threw |-> TRUE, err |-> reply.err, text |-> <<>>]
    ELSE IF reply.content = <<>>
    THEN [threw |-> TRUE, text |-> <<>>,
          err |-> Err("TypeError", "Cannot read properties of undefined")]
    ELSE IF reply.content[1].type # "text"
    THEN [threw |-> FALSE, err |-> NoErr, text |-> chunk]
    ELSE [threw |-> FALSE, err |-> NoErr, text |-> Trim(reply.content[1].text)]

\* Variant: the failure of one rewrite is caught inside the loop, which goes on
OnCleaned_Swallow(evts, log, k, chs, c) ==
    LET log1 == EndCall(log, "cleanChunk", Len(evts), c.err)
    IN IF c.threw
       THEN LoopHead(sendEvent(evts, EvError(RewriteMessage(c.err))), log1, k + 1, chs)
       ELSE LoopHead(sendEvent(evts, EvChunk(k, c.text)), log1, k + 1, chs)

\* The rewrite of chunk i settled: its chunk event and the next turn of the
\* loop, or the outer catch
OnCleaned(evts, log, k, chs, c) ==
    LET log1 == EndCall(log, "cleanChunk", Len(evts), c.err)
    IN IF c.threw THEN Catch(evts, log1, c.err)
       ELSE LoopHead(sendEvent(evts, EvChunk(k, c.text)), log1, k + 1, chs)

CleanChunk(reply) ==
    /\ pc = "cleanChunk"
    /\ LET c == cleanChunk(chunks[loopI + 1], reply)
           r == IF cancelled
                THEN Abandoned(events,
                               EndCall(calls, "cleanChunk", Len(events), c.err))
                ELSE OnCleaned(events, calls, loopI, chunks, c)
       IN /\ events' = r.events
          /\ calls' = r.calls
          /\ closed' = r.closed
          /\ pc' = r.pc
          /\ loopI' = IF c.threw THEN loopI ELSE loopI + 1
    /\ UNCHANGED <<cancelled, client, fn, env, request, response, videoId, tr, mt, chunks, hasTimecodes>>

\* POST: validation; on acceptance the stream starts: the status event, then
\* fetchTranscript and fetchVideoMeta are both started
POST(body) ==
    /\ pc = "idle"
    /\ request' = body
    /\ LET v == Validation(body, env)
       IN IF ~v.accepted
          THEN /\ pc' = "rejected"
               /\ response' = [status |-> v.status, kind |-> "json", error |-> v.error]
               /\ UNCHANGED <<events, videoId, tr, mt, calls>>
          ELSE LET evts == sendEvent(events, EvStatus)
                   t    == StartTranscript(env, calls, Len(evts))
               IN /\ pc' = "allSettled"
                  /\ response' = [status |-> 200, kind |-> "stream", error |-> ""]
                  /\ events' = evts
                  /\ videoId' = v.videoId
                  /\ tr' = t.tr
                  /\ mt' = [pc |-> "innertube", status |-> "pending", value |-> NoMeta]
                  /\ calls' = StartCall(t.calls, "fetchVideoMeta", -1, Len(evts))
    /\ UNCHANGED <<cancelled, client, fn, env, closed, chunks, hasTimecodes, loopI>>

-----------------------------------------------------------------------------
(* Specification *)

Init ==
    /\ env \in Envs
    /\ request = NoRequest
    /\ pc = "idle"
    /\ response = NoResponse
    /\ events = <<>>
    /\ closed = FALSE
    /\ cancelled = FALSE
    /\ videoId = <<>>
    /\ tr = TrInit
    /\ mt = [pc |-> "none", status |-> "pending", value |-> NoMeta]
    /\ calls = <<>>
    /\ chunks = <<>>
    /\ hasTimecodes = FALSE
    /\ loopI = 0
    /\ fn = NoCall
    /\ client = PageInit

Next ==
    \/ \E body \in Bodies : POST(body)
    \/ \E reply \in SupadataReplies : SupadataTranscript(reply)
    \/ \E reply \in JobReplies : SupadataJobStatus(reply)
    \/ \E reply \in WatchReplies : AndroidWatch(reply)
    \/ \E reply \in PlayerReplies : AndroidPlayer(reply)
    \/ \E reply \in XmlReplies : AndroidXml(reply)
    \/ \E reply \in MetaReplies : MetaInnertube(reply)
    \/ \E reply \in MetaReplies : MetaOembed(reply)
    \/ Settled
    \/ \E reply \in RewriterReplies : CleanChunk(reply)

Spec == Init /\ [][Next]_vars

\* an upstream call that is awaited settles, by returning or by throwing
\* (after a rewrite call the producer goes on to the next chunk or to the end)
UpstreamSettles ==
    \/ \E reply \in SupadataReplies : SupadataTranscript(reply)
    \/ \E reply \in JobReplies : SupadataJobStatus(reply)
    \/ \E reply \in WatchReplies : AndroidWatch(reply)
    \/ \E reply \in PlayerReplies : AndroidPlayer(reply)
    \/ \E reply \in XmlReplies : AndroidXml(reply)
    \/ \E reply \in MetaReplies : MetaInnertube(reply)
    \/ \E reply \in MetaReplies : MetaOembed(reply)
    \/ \E reply \in RewriterReplies : CleanChunk(reply)

\* ReadableStream.start resumes after Promise.allSettled: the step of Settled,
\* named by its guard and by the positions it leads to (no other step of Next
\* leaves "allSettled")
Resumes ==
    /\ pc = "allSettled" /\ tr.status # "pending" /\ mt.status # "pending"
    /\ pc' \in {"cleanChunk", "end"}

\* The route when every upstream call that is awaited settles and the
\* producer resumes once both promises have settled. The client never cancels
\* (Cancel is no step of Next) and need not send a request at all (no fairness
\* on POST).
LiveSpec ==
    /\ Init /\ [][Next]_vars
    /\ WF_vars(UpstreamSettles)
    /\ WF_pc(Resumes)

\* The consumer of the response cancels the stream (the client aborted its
\* request). The ReadableStream is built with start alone, no cancel
\* callback: nothing of the route runs, the stream is just no longer writable.
Cancel ==
    /\ response.kind = "stream" /\ pc # "end"
    /\ ~cancelled
    /\ cancelled' = TRUE
    /\ UNCHANGED <<env, request, pc, response, events, closed, videoId, tr, mt,
                   calls, chunks, hasTimecodes, loopI, fn, client>>

\* the route with a client that may cancel
CancelNext == Next \/ Cancel

CancelSpec == Init /\ [][CancelNext]_vars

-----------------------------------------------------------------------------
(* The page: reassembly of the chunk events (handleSubmit, case "chunk") *)

\* a slot of the sparse array collectedChunks that was never assigned
Hole == [has |-> FALSE, text |-> <<>>]

\* Variant: the text is pushed onto the array, whatever its index
OnChunk_Push(collected, index, text) ==
    Append(collected, [has |-> TRUE, text |-> text])

\* collectedChunks[event.index] = event.text: the array grows to index + 1
\* slots, the slots in between stay holes
OnChunk(collected, index, text) ==
    [k \in 1..(IF index + 1 > Len(collected) THEN index + 1 ELSE Len(collected)) |->
        IF k = index + 1 THEN [has |-> TRUE, text |-> text]
        ELSE IF k <= Len(collected) THEN collected[k] ELSE Hole]

BlankLine == <<"\n", "\n">>

\* Variant: only the holes are filtered out
Displayed_KeepEmpty(collected) ==
    LET kept == SelectSeq(collected, LAMBDA c : c.has)
    IN Join([k \in 1..Len(kept) |-> kept[k].text], BlankLine)

\* collectedChunks.filter(Boolean).join("\n\n"): holes and empty strings are
\* filtered out
Displayed(collected) ==
    LET kept == SelectSeq(collected, LAMBDA c : c.has /\ c.text # <<>>)
    IN Join([k \in 1..Len(kept) |-> kept[k].text], BlankLine)

\* the chunk events of a sequence handled one after the other
RECURSIVE Reassemble(_, _)
Reassemble(collected, deliveries) ==
    IF deliveries = <<>> THEN collected
    ELSE Reassemble(OnChunk(collected, Head(deliveries).index, Head(deliveries).text),
                    Tail(deliveries))

-----------------------------------------------------------------------------
(* The page: handleSubmit and its stream loop *)

\* the submissions and the reads of one submission that are explored
MaxSubmissions == 3
MaxReads == 3

\* the content of the url field when the form is submitted
UrlInputs == { <<>>, <<" ">>, <<"u">> }

\* status codes of the answers of the route: the stream, and its rejections
HttpStatuses == { 200, 400, 500 }

\* the parsed body of a rejection: { error }, or {} when response.json() fails
NoBody == [has |-> FALSE, error |-> <<>>]
ErrorBodies == { NoBody, [has |-> TRUE, error |-> <<>>],
                 [has |-> TRUE, error |-> <<"Invalid YouTube URL">>] }

\* a line that is skipped: no "data: " prefix, nothing after it, or no JSON
Garbage == [type |-> "garbage"]

\* the lines the transport hands over
PageLines ==
    { EvStatus, EvMeta(Meta("T", Duration)), EvInfo(2, 3, TRUE), EvProgress(1, 2),
      EvChunk(0, <<"A">>), EvChunk(1, <<"B">>), EvDone,
      EvError(<<"Transcripts are disabled for this video.">>), Garbage }

NoLine == [type |-> "none"]

StatusLoading == [kind |-> "loading", message |-> "Fetching transcript..."]
CutOffMessage == <<"The request was cut off before finishing">>
NetworkMessage == <<"Network error. Please check your connection and try again.">>
ServerErrorMessage(status) == <<"Server error (", status, ")">>

\* the locals of one call of handleSubmit. at: the await the call is
\* suspended at ("fetch", "json", "read") or "returned"; aborted: its
\* controller's signal; got: the terminal event its loop handled; how: the
\* way the call returned
NewRequest ==
    [at |-> "fetch", aborted |-> FALSE, httpStatus |-> 0, buffer |-> NoLine,
     collectedChunks |-> <<>>, receivedCompletion |-> FALSE, reads |-> 0,
     got |-> NoLine, how |-> "running"]

\* a call that returned: its locals are gone
Returned(q, how) ==
    [q EXCEPT !.at = "returned", !.how = how, !.buffer = NoLine,
              !.collectedChunks = <<>>, !.reads = 0, !.httpStatus = 0]

\* the call r sets the status
SetStatus(page, r, status) == [page EXCEPT !.status = status, !.setter = r]

\* the body of the for loop: one line of the stream
OnLine(page, r, event) ==
    CASE event.type = "status" ->
           SetStatus(page, r, [kind |-> "loading", message |-> event.message])
      [] event.type = "meta" ->
           [page EXCEPT !.videoMeta = Meta(event.title, event.durationSeconds)]
      [] event.type = "info" ->
           [SetStatus(page, r, [kind |-> "processing", current |-> 0,
                                total |-> event.totalChunks])
               EXCEPT !.hasTimecodes = event.hasTimecodes]
      [] event.type = "progress" ->
           SetStatus(page, r, [kind |-> "processing", current |-> event.current,
                               total |-> event.total])
      [] event.type = "chunk" ->
           LET collected == OnChunk(page.reqs[r].collectedChunks, event.index,
                                    event.text)
           IN [page EXCEPT !.reqs[r].collectedChunks = collected,
                           !.transcript = Displayed(collected)]
      [] event.type = "done" ->
           [SetStatus(page, r, [kind |-> "done"])
               EXCEPT !.reqs[r].receivedCompletion = TRUE, !.reqs[r].got = event]
      [] event.type = "error" ->
           [SetStatus(page, r, [kind |-> "error", message |-> event.message])
               EXCEPT !.reqs[r].receivedCompletion = TRUE, !.reqs[r].got = event]
      [] OTHER -> page

\* Variant: the end of the stream sets no status
OnStreamEnd_Silent(page, r) ==
    [page EXCEPT !.reqs[r] = Returned(@, "stream-end")]

\* after the loop: the stream ended
OnStreamEnd(page, r) ==
    LET after == IF page.reqs[r].receivedCompletion THEN page
                 ELSE SetStatus(page, r, [kind |-> "error", message |-> CutOffMessage])
    IN [after EXCEPT !.reqs[r] = Returned(@, "stream-end")]

\* the catch block of handleSubmit
OnThrown(page, r, name) ==
    IF name = "AbortError" THEN [page EXCEPT !.reqs[r] = Returned(@, "aborted")]
    ELSE [SetStatus(page, r, [kind |-> "error", message |-> NetworkMessage])
             EXCEPT !.reqs[r] = Returned(@, "network-error")]

\* the branch of a response that is not ok, after response.json() settled
OnNotOk(page, r, body) ==
    LET message == IF body.has /\ body.error # <<>> THEN body.error
                   ELSE ServerErrorMessage(page.reqs[r].httpStatus)
    IN [SetStatus(page, r, [kind |-> "error", message |-> message])
           EXCEPT !.reqs[r] = Returned(@, "not-ok")]

\* abortRef.current?.abort(): the signal of the latest controller
AbortLatest(reqs) ==
    [k \in 1..Len(reqs) |->
        IF k = Len(reqs) THEN [reqs[k] EXCEPT !.aborted = TRUE] ELSE reqs[k]]

\* what abort() does to the call r it aborts: the await the call is suspended
\* at rejects with an AbortError, and the call resumes before any other event
\* is handled. response.json() rejects too, which its catch turns into {}.
OnAborted(page, r) ==
    IF r = 0 THEN page
    ELSE CASE page.reqs[r].at \in {"fetch", "read"} -> OnThrown(page, r, "AbortError")
           [] page.reqs[r].at = "json" -> OnNotOk(page, r, NoBody)
           [] OTHER -> page

\* handleSubmit up to its first await, then the call it aborted
handleSubmit(page, url) ==
    IF Trim(url) = <<>> THEN page
    ELSE OnAborted([page EXCEPT !.transcript = <<>>, !.hasTimecodes = FALSE,
                                !.videoMeta = NoMeta, !.status = StatusLoading,
                                !.setter = Len(page.reqs) + 1,
                                !.reqs = Append(AbortLatest(page.reqs), NewRequest)],
                   Len(page.reqs))

-----------------------------------------------------------------------------
(* The route from end to end, with the answers of the upstream services     *)
(* fixed: the fallback adapter delivers cues, the metadata lookup finds     *)
(* nothing, the rewriter answers with the text it was given                *)

\* the rewrite backend returns the chunk unchanged
IdentityReply(chunk) ==
    [kind |-> "message", content |-> << [type |-> "text", text |-> chunk] >>]

\* the chunk loop, every rewrite answered by IdentityReply
RECURSIVE ChunkLoop(_, _, _)
ChunkLoop(run, k, chs) ==
    IF run.pc # "cleanChunk" THEN run
    ELSE ChunkLoop(OnCleaned(run.events, run.calls, k, chs,
                             cleanChunk(chs[k + 1], IdentityReply(chs[k + 1]))),
                   k + 1, chs)

\* POST and ReadableStream.start for an accepted request
Stream(e, items, wordsPerChunk) ==
    LET evts == sendEvent(<<>>, EvStatus)
        t0   == StartTranscript(e, <<>>, Len(evts))
        log0 == StartCall(t0.calls, "fetchVideoMeta", -1, Len(evts))
        log1 == EndCall(EndCall(log0, t0.calls[1].op, Len(evts), NoErr),
                        "fetchVideoMeta", Len(evts), NoErr)
        m    == [pc |-> "none", status |-> "fulfilled", value |-> NoMeta]
        s    == OnSettledWith(evts, log1, m, Fulfil(t0.tr, items, NoMeta),
                              wordsPerChunk)
    IN [first |-> t0.calls[1].op, run |-> ChunkLoop(s.run, 0, s.chunks)]

-----------------------------------------------------------------------------
(* The helpers of the route applied on their own, to arguments drawn from  *)
(* bounded sets; the route handler stays idle.                              *)

MaxTextLen == 9
MaxWordsPerChunk == 3

\* every string over the alphabet up to the given length
Strings(alphabet, maxLen) == UNION { [1..n -> alphabet] : n \in 0..maxLen }

Texts == Strings({"a", "b", " "}, MaxTextLen)

MaxCues == 3

\* cue offsets in milliseconds, on and around the 60 s boundaries and the hour
CueOffsets == {0, 500, 59999, 60000, 61000, 119999, 120000, 3600000}

CueTexts == { <<"a">>, <<"b", "\n", "c">> }

CueSeqs ==
    UNION { [1..n -> {Cue(t, o) : t \in CueTexts, o \in CueOffsets}] :
              n \in 0..MaxCues }

MaxMarkerSeconds == 3700

\* times in milliseconds: every second up to a little over one hour, each as
\* a whole second and just below the next one, and later hours
MarkerTimes ==
    { sec * 1000 + frac :
        sec \in (0..MaxMarkerSeconds) \cup {7199, 7200, 35999, 36000, 86399, 360000},
        frac \in {0, 999} }

SchemeHttps == <<"h", "t", "t", "p", "s", ":", "/", "/">>
SchemeHttp  == <<"h", "t", "t", "p", ":", "/", "/">>

HostMobile    == <<"m", ".">> \o SubSeq(HostCanonical, 5, Len(HostCanonical))
HostBare      == SubSeq(HostCanonical, 5, Len(HostCanonical))
HostLookalike == <<"n", "o", "t">> \o HostBare

\* new URL(input) for http(s) URLs: the parser strips leading and trailing
\* spaces and control characters, wants a scheme and a host, and cuts the
\* rest into pathname ("/" when there is none), query and fragment;
\* searchParams.get("v") is the value of the first pair named v.
ParseQuery(host, path, query) ==
    LET pairs  == SplitOn(query, "&")
        isV(k) == StartsWith(pairs[k], <<"v", "=">>) \/ pairs[k] = <<"v">>
        vs     == {k \in 1..Len(pairs) : isV(k)}
        first  == CHOOSE k \in vs : \A j \in vs : k <= j
    IN Url(host, path, vs # {},
           IF vs = {} THEN <<>> ELSE SubSeq(pairs[first], 3, Len(pairs[first])))

ParsePath(host, after) ==
    LET pEnd == IndexOfAny(after, {"?", "#"})
        tail == SubSeq(after, pEnd, Len(after))
    IN ParseQuery(host,
                  IF pEnd > 1 THEN SubSeq(after, 1, pEnd - 1) ELSE <<"/">>,
                  IF tail # <<>> /\ Head(tail) = "?"
                  THEN SubSeq(tail, 2, IndexOfAny(tail, {"#"}) - 1) ELSE <<>>)

ParseHost(rest) ==
    LET hEnd == IndexOfAny(rest, {"/", "?", "#"})
    IN IF hEnd = 1 \/ \E k \in 1..(hEnd - 1) : IsWs(rest[k])
       THEN [kind |-> "unparseable"]
       ELSE ParsePath(SubSeq(rest, 1, hEnd - 1), SubSeq(rest, hEnd, Len(rest)))

NewURL(input) ==
    LET s == Trim(input)
    IN IF StartsWith(s, SchemeHttps)
       THEN ParseHost(SubSeq(s, Len(SchemeHttps) + 1, Len(s)))
       ELSE IF StartsWith(s, SchemeHttp)
       THEN ParseHost(SubSeq(s, Len(SchemeHttp) + 1, Len(s)))
       ELSE [kind |-> "unparseable"]

\* extractVideoId(url) on the string it is given
ExtractFromString(input) == extractVideoId(NewURL(Trim(input)))

\* The strings the resolver is applied to, by their parts: surrounding
\* whitespace, scheme (none: not a URL), host, path and query pairs
Pads == { <<>>, <<" ">>, <<"\n", " ">> }

PathsOfUrls ==
    { <<>>, <<"/">>, <<"/", "a", "b">>, <<"/", "w", "a", "t", "c", "h">>,
      <<"/", "e", "m", "b", "e", "d", "/">>,
      <<"/", "e", "m", "b", "e", "d", "/", "a", "b">>,
      <<"/", "e", "m", "b", "e", "d", "/", "a", "b", "/", "c">> }

Pair(name, value) == [name |-> name, value |-> value]

QueriesOfUrls ==
    { <<>>,
      << Pair(<<"v">>, <<"x", "y">>) >>,
      << Pair(<<"v">>, <<>>) >>,
      << Pair(<<"t">>, <<"1">>) >>,
      << Pair(<<"t">>, <<"1">>), Pair(<<"v">>, <<"x", "y">>) >> }

UrlShapes ==
    [lead : Pads, scheme : {SchemeHttps, <<>>},
     host : {HostShort, HostCanonical, HostMobile, HostOther, HostLookalike},
     path : PathsOfUrls, query : QueriesOfUrls, trail : Pads]

\* the query string of the pairs: ?name=value&name=value
QueryString(pairs) ==
    IF pairs = <<>> THEN <<>>
    ELSE <<"?">> \o Join([k \in 1..Len(pairs) |->
                              pairs[k].name \o <<"=">> \o pairs[k].value], <<"&">>)

StringOf(sh) ==
    sh.lead \o sh.scheme \o sh.host \o sh.path \o QueryString(sh.query) \o sh.trail

MaxDeliveries == 3
MaxChunkIndex == 2

\* texts of chunk events as the page receives them, the empty text included
ChunkTexts == { <<>>, <<"A">>, <<"B", "\n", "C">> }

ChunkEvents == { EvChunk(i, t) : i \in 0..MaxChunkIndex, t \in ChunkTexts }

Deliveries == UNION { [1..n -> ChunkEvents] : n \in 0..MaxDeliveries }

\* chunk sizes of the end-to-end run
MaxScenarioWords == 7

HelloWorld == << "h", "e", "l", "l", "o", " ", "w", "o", "r", "l", "d" >>
MoreText == << "m", "o", "r", "e", " ", "t", "e", "x", "t" >>

\* cues delivered to the end-to-end run
ScenarioCues == << Cue(HelloWorld, 0), Cue(MoreText, 65000) >>
ScenarioCueLists ==
    { ScenarioCues,
      << Cue(HelloWorld, 0), Cue(MoreText, 59000) >>,
      << Cue(HelloWorld, 0), Cue(MoreText, 0) >>,
      << Cue(MoreText, 65000) >> }

HandlerIdle ==
    UNCHANGED <<env, request, pc, response, events, closed, cancelled, videoId, tr,
                mt, calls, chunks, hasTimecodes, loopI, client>>

ApplyChunkWords(text, wordsPerChunk) ==
    /\ fn.op = "none"
    /\ fn' = [op |-> "chunkWords", text |-> text, wordsPerChunk |-> wordsPerChunk,
              out |-> chunkWords(text, wordsPerChunk)]
    /\ HandlerIdle

ApplyBuildRawText(items) ==
    /\ fn.op = "none"
    /\ fn' = [op |-> "buildRawText", items |-> items, out |-> buildRawText(items)]
    /\ HandlerIdle

ApplyFormatTimecodeMarker(totalMs) ==
    /\ fn.op = "none"
    /\ fn' = [op |-> "formatTimecodeMarker", totalMs |-> totalMs,
              out |-> formatTimecodeMarker(totalMs)]
    /\ HandlerIdle

\* extractVideoId on a string, and the answer of POST to a body with that url
ApplyExtractVideoId(sh) ==
    /\ fn.op = "none"
    /\ LET url == StringOf(sh)
       IN fn' = [op |-> "extractVideoId", shape |-> sh, url |-> url,
                 out |-> ExtractFromString(url),
                 answer |-> Validation([kind |-> "object",
                                        url |-> NewURL(Trim(url)),
                                        supadataKey |-> FALSE], env)]
    /\ HandlerIdle

\* the page handles a sequence of chunk events, starting from an empty array
ApplyReassemble(deliveries) ==
    /\ fn.op = "none"
    /\ LET collected == Reassemble(<<>>, deliveries)
       IN fn' = [op |-> "reassemble", deliveries |-> deliveries,
                 collected |-> collected, transcript |-> Displayed(collected)]
    /\ HandlerIdle

\* the route runs from end to end on cues the fallback adapter delivered
ApplyStream(items, wordsPerChunk) ==
    /\ fn.op = "none"
    /\ LET s == Stream(env, items, wordsPerChunk)
       IN fn' = [op |-> "stream", items |-> items, wordsPerChunk |-> wordsPerChunk,
                 first |-> s.first, events |-> s.run.events, closed |-> s.run.closed]
    /\ HandlerIdle

\* the caption tracks of a player response, each with its own fetch URL
MaxTracks == 3
CaptionTracks == [languageCode : {"en", "de"}, kind : {"asr", ""}, xpe : BOOLEAN]
CaptionTrackLists ==
    { [k \in 1..Len(l) |->
          [languageCode |-> l[k].languageCode, kind |-> l[k].kind,
           xpe |-> l[k].xpe, baseUrl |-> k]] :
        l \in UNION { [1..n -> CaptionTracks] : n \in 0..MaxTracks } }

ApplyPickTrack(captionTracks) ==
    /\ fn.op = "none"
    /\ fn' = [op |-> "pickTrack", captionTracks |-> captionTracks,
              out |-> PickTrack(captionTracks)]
    /\ HandlerIdle

FnInit == Init /\ env = [ANTHROPIC_API_KEY |-> TRUE, SUPADATA_API_KEY |-> FALSE]

\* one helper is applied, once
FnNext ==
    \/ /\ fn.op = "none"
       /\ \E text \in Texts, n \in 1..MaxWordsPerChunk : ApplyChunkWords(text, n)
    \/ /\ fn.op = "none"
       /\ \E items \in CueSeqs : ApplyBuildRawText(items)
    \/ /\ fn.op = "none"
       /\ \E totalMs \in MarkerTimes : ApplyFormatTimecodeMarker(totalMs)
    \/ /\ fn.op = "none"
       /\ \E sh \in UrlShapes : ApplyExtractVideoId(sh)
    \/ /\ fn.op = "none"
       /\ \E deliveries \in Deliveries : ApplyReassemble(deliveries)
    \/ /\ fn.op = "none"
       /\ \E items \in ScenarioCueLists, n \in 1..MaxScenarioWords :
             ApplyStream(items, n)
    \/ /\ fn.op = "none"
       /\ \E captionTracks \in CaptionTrackLists : ApplyPickTrack(captionTracks)

FnSpec == FnInit /\ [][FnNext]_vars

\* the route handler and the helpers stay idle while the page runs
ServerIdle ==
    UNCHANGED <<env, request, pc, response, events, closed, cancelled, videoId, tr,
                mt, calls, chunks, hasTimecodes, loopI, fn>>

\* the calls of handleSubmit that are suspended at an await
Suspended(at) ==
    { r \in 1..Len(client.reqs) : client.reqs[r].at = at }

\* the stream of the call was closed by the route: a terminal event was
\* written, in full or as the fragment in the buffer
StreamClosed(q) ==
    q.receivedCompletion \/ q.buffer.type \in {"done", "error"}

\* the form is submitted with url in its field
Submit(url) ==
    /\ Len(client.reqs) < MaxSubmissions
    /\ client' = handleSubmit(client, url)
    /\ ServerIdle

\* await fetch(...) resolves with a response
FetchResolves(r, status) ==
    /\ client.reqs[r].at = "fetch"
    /\ client' = IF status = 200
                 THEN [client EXCEPT !.reqs[r].at = "read", !.reqs[r].httpStatus = status]
                 ELSE [client EXCEPT !.reqs[r].at = "json", !.reqs[r].httpStatus = status]
    /\ ServerIdle

\* await fetch(...) rejects: TypeError of the network
FetchRejects(r) ==
    /\ client.reqs[r].at = "fetch"
    /\ client' = OnThrown(client, r, "TypeError")
    /\ ServerIdle

\* await response.json().catch(() => ({})) settles
JsonSettles(r, body) ==
    /\ client.reqs[r].at = "json"
    /\ client' = OnNotOk(client, r, body)
    /\ ServerIdle

\* await reader.read() hands over one full line
ReadLine(r, line) ==
    /\ client.reqs[r].at = "read"
    /\ client.reqs[r].reads < MaxReads
    /\ client.reqs[r].buffer = NoLine
    /\ ~StreamClosed(client.reqs[r])
    /\ client' = [OnLine(client, r, line) EXCEPT !.reqs[r].reads = @ + 1]
    /\ ServerIdle

\* await reader.read() hands over the start of a line, without its newline:
\* it stays in the buffer
ReadFragment(r, line) ==
    /\ client.reqs[r].at = "read"
    /\ client.reqs[r].reads < MaxReads
    /\ client.reqs[r].buffer = NoLine
    /\ ~StreamClosed(client.reqs[r])
    /\ client' = [client EXCEPT !.reqs[r].buffer = line, !.reqs[r].reads = @ + 1]
    /\ ServerIdle

\* await reader.read() hands over the rest of the line in the buffer
ReadRest(r) ==
    /\ client.reqs[r].at = "read"
    /\ client.reqs[r].buffer # NoLine
    /\ client' = [OnLine(client, r, client.reqs[r].buffer)
                     EXCEPT !.reqs[r].buffer = NoLine]
    /\ ServerIdle

\* await reader.read() answers done: the transport ended; what is left in
\* the buffer is dropped
ReadEnds(r) ==
    /\ client.reqs[r].at = "read"
    /\ client' = OnStreamEnd(client, r)
    /\ ServerIdle

\* await reader.read() rejects: TypeError of the network
ReadRejects(r) ==
    /\ client.reqs[r].at = "read"
    /\ client' = OnThrown(client, r, "TypeError")
    /\ ServerIdle

ClientInit == Init /\ env = [ANTHROPIC_API_KEY |-> TRUE, SUPADATA_API_KEY |-> FALSE]

ClientNext ==
    \/ \E url \in UrlInputs : Submit(url)
    \/ \E r \in Suspended("fetch"), status \in HttpStatuses : FetchResolves(r, status)
    \/ \E r \in Suspended("fetch") : FetchRejects(r)
    \/ \E r \in Suspended("json"), body \in ErrorBodies : JsonSettles(r, body)
    \/ \E r \in Suspended("read"), line \in PageLines : ReadLine(r, line)
    \/ \E r \in Suspended("read"), line \in PageLines : ReadFragment(r, line)
    \/ \E r \in Suspended("read") : ReadRest(r)
    \/ \E r \in Suspended("read") : ReadEnds(r)
    \/ \E r \in Suspended("read") : ReadRejects(r)

ClientSpec == ClientInit /\ [][ClientNext]_vars

-----------------------------------------------------------------------------
(* The event stream on the wire: sendEvent's framing on the route's side,
   the line buffering of handleSubmit on the page's side *)

Quote == <<"\"">>
TypeKey == <<"{", "\"", "t", "y", "p", "e", "\"", ":">>
MessageKey == <<",", "\"", "m", "e", "s", "s", "a", "g", "e", "\"", ":">>
DataPrefix == <<"d", "a", "t", "a", ":", " ">>

TypeNames ==
    [done |-> <<"d", "o", "n", "e">>, error |-> <<"e", "r", "r", "o", "r">>]

\* JSON.stringify of a string, without the quotes around it
RECURSIVE Escape(_)
Escape(s) ==
    IF s = <<>> THEN <<>>
    ELSE (IF Head(s) = "\n" THEN <<"\\", "n">>
          ELSE IF Head(s) \in {"\"", "\\"} THEN <<"\\", Head(s)>>
          ELSE <<Head(s)>>) \o Escape(Tail(s))

\* JSON.stringify(data) for an event {type} or {type, message}
stringify(data) ==
    TypeKey \o Quote \o TypeNames[data.type] \o Quote
        \o (IF "message" \in DOMAIN data
            THEN MessageKey \o Quote \o Escape(data.message) \o Quote
            ELSE <<>>)
        \o <<"}">>

\* JSON.parse from the first character of a string literal's content to its
\* closing quote: the text, and what follows the quote; a control character
\* or an unknown escape is a syntax error, and so is a missing closing quote
RECURSIVE ParseString(_, _)
ParseString(s, acc) ==
    IF s = <<>> \/ Head(s) = "\n" THEN [ok |-> FALSE, text |-> <<>>, rest |-> <<>>]
    ELSE IF Head(s) = "\"" THEN [ok |-> TRUE, text |-> acc, rest |-> Tail(s)]
    ELSE IF Head(s) = "\\"
    THEN IF Len(s) >= 2 /\ s[2] \in {"n", "\"", "\\"}
         THEN ParseString(SubSeq(s, 3, Len(s)),
                          Append(acc, IF s[2] = "n" THEN "\n" ELSE s[2]))
         ELSE [ok |-> FALSE, text |-> <<>>, rest |-> <<>>]
    ELSE ParseString(Tail(s), Append(acc, Head(s)))

\* JSON.parse(raw) on the texts that occur on this wire: an event object, or
\* a SyntaxError
parse(raw) ==
    LET bad  == [ok |-> FALSE, event |-> [type |-> ""]]
        name == ParseString(SubSeq(raw, Len(TypeKey) + 2, Len(raw)), <<>>)
        ty   == CHOOSE t \in DOMAIN TypeNames : TypeNames[t] = name.text
        msg  == ParseString(SubSeq(name.rest, Len(MessageKey) + 2, Len(name.rest)),
                            <<>>)
    IN IF ~StartsWith(raw, TypeKey \o Quote) \/ ~name.ok THEN bad
       ELSE IF \A t \in DOMAIN TypeNames : TypeNames[t] # name.text THEN bad
       ELSE IF name.rest = <<"}">> THEN [ok |-> TRUE, event |-> [type |-> ty]]
       ELSE IF StartsWith(name.rest, MessageKey \o Quote) /\ msg.ok
                  /\ msg.rest = <<"}">>
       THEN [ok |-> TRUE, event |-> [type |-> ty, message |-> msg.text]]
       ELSE bad

\* sendEvent: the bytes enqueued for an event
Frame(data) == DataPrefix \o stringify(data) \o <<"\n", "\n">>

\* Variant: nothing of a read is carried over to the next
OnRead_NoCarry(buffer, value, got) ==
    LET lines == SplitOn(buffer \o value, "\n")
        RECURSIVE each(_, _)
        each(k, acc) ==
            IF k > Len(lines) THEN acc
            ELSE LET line == lines[k]
                     raw  == Trim(SubSeq(line, Len(DataPrefix) + 1, Len(line)))
                     p    == parse(raw)
                 IN IF ~StartsWith(line, DataPrefix) \/ raw = <<>> \/ ~p.ok
                    THEN each(k + 1, acc)
                    ELSE each(k + 1, Append(acc, p.event))
    IN [buffer |-> <<>>, got |-> each(1, got)]

\* handleSubmit, one turn of the read loop on a read of value: the complete
\* lines of the buffer are taken, the rest is kept; got collects the events
\* that reach the switch
OnRead(buffer, value, got) ==
    LET lines == SplitOn(buffer \o value, "\n")
        RECURSIVE each(_, _)
        each(k, acc) ==
            IF k > Len(lines) - 1 THEN acc
            ELSE LET line == lines[k]
                     raw  == Trim(SubSeq(line, Len(DataPrefix) + 1, Len(line)))
                     p    == parse(raw)
                 IN IF ~StartsWith(line, DataPrefix) \/ raw = <<>> \/ ~p.ok
                    THEN each(k + 1, acc)
                    ELSE each(k + 1, Append(acc, p.event))
    IN [buffer |-> lines[Len(lines)], got |-> each(1, got)]

\* messages with the characters that JSON escapes
WireMessages ==
    { <<>>, <<"\n">>, <<"\"", "\\">>, <<"a", "\n", "d">> }

WireEvents == { EvDone } \cup { EvError(m) : m \in WireMessages }

\* lines that are no event: a comment, a data line without data, a data line
\* that is not JSON
OtherLines ==
    { <<":", "\n">>,
      DataPrefix \o <<"\n">>,
      DataPrefix \o <<"{", "\"", "\n">> }

WireItems ==
    { [kind |-> "event", event |-> e] : e \in WireEvents }
    \cup { [kind |-> "other", line |-> l] : l \in OtherLines }

MaxWireItems == 2
WireStreams == UNION { [1..n -> WireItems] : n \in 0..MaxWireItems }

BytesOf(item) == IF item.kind = "event" THEN Frame(item.event) ELSE item.line

RECURSIVE Bytes(_)
Bytes(items) == IF items = <<>> THEN <<>> ELSE BytesOf(Head(items)) \o Bytes(Tail(items))

\* the route enqueues the frames of its events (other lines come between them
\* on the way); the page starts to read
Transmit(items) ==
    /\ fn.op = "none"
    /\ fn' = [op |-> "wire", sent |-> items, rest |-> Bytes(items),
              buffer |-> <<>>, got |-> <<>>, ended |-> FALSE]
    /\ HandlerIdle

\* reader.read() resolves with the next n bytes of the stream
Read(n) ==
    /\ fn.op = "wire" /\ ~fn.ended
    /\ n \in 1..Len(fn.rest)
    /\ LET r == OnRead(fn.buffer, SubSeq(fn.rest, 1, n), fn.got)
       IN fn' = [fn EXCEPT !.rest = SubSeq(fn.rest, n + 1, Len(fn.rest)),
                           !.buffer = r.buffer, !.got = r.got]
    /\ HandlerIdle

\* reader.read() resolves with done: the loop is left, the buffer with it
ReadDone ==
    /\ fn.op = "wire" /\ ~fn.ended /\ fn.rest = <<>>
    /\ fn' = [fn EXCEPT !.ended = TRUE, !.buffer = <<>>]
    /\ HandlerIdle

WireNext ==
    \/ /\ fn.op = "none"
       /\ \E items \in WireStreams : Transmit(items)
    \/ /\ fn.op = "wire"
       /\ \E n \in 1..Len(fn.rest) : Read(n)
    \/ ReadDone

WireSpec == FnInit /\ [][WireNext]_vars

-----------------------------------------------------------------------------
(* Properties *)

Types == [p \in DOMAIN events |-> events[p].type]
OfType(ty) == {p \in DOMAIN events : events[p].type = ty}
IsTerminal(e) == e.type \in {"done", "error"}
CallsOf(op) == {k \in DOMAIN calls : calls[k].op = op}
InFlight == {k \in DOMAIN calls : calls[k].endAt = -1}
AcquisitionOps == {"fetchViaSupadata", "fetchViaAndroid"}

\* Acceptor of the permitted order of event kinds
NextPhase(ph, ty) ==
    CASE ph = "start"    /\ ty = "status" -> "status"
      [] ph = "status"   /\ ty \in {"status", "meta", "info", "error"} -> ty
      [] ph = "meta"     /\ ty \in {"info", "error"} -> ty
      [] ph = "info"     /\ ty \in {"progress", "done", "error"} -> ty
      [] ph = "progress" /\ ty \in {"chunk", "error"} -> ty
      [] ph = "chunk"    /\ ty \in {"progress", "done", "error"} -> ty
      [] OTHER -> "bad"

RECURSIVE PhaseAfter(_)
PhaseAfter(p) ==
    IF p = 0 THEN "start" ELSE NextPhase(PhaseAfter(p - 1), events[p].type)

\* C1: on a started stream the kinds of the events written so far are a prefix
\* of status+ meta? info (progress chunk)* done, where an error may end the
\* sequence at any point; the first event is a status and nothing follows a
\* done or an error.
C1_EventOrder ==
    /\ PhaseAfter(Len(events)) # "bad"
    /\ response.kind = "stream" => Len(events) >= 1 /\ events[1].type = "status"
    /\ events # <<>> => response.kind = "stream"

C1_Witness ==
    Types = <<"status", "meta", "info", "progress", "chunk", "progress", "chunk",
              "done">>

\* C2 (state part): a closed stream carries exactly one terminal event, and it
\* is the last event written, so done and error never both occur.
C2_ClosedHasOneTerminal ==
    closed =>
        /\ events # <<>>
        /\ IsTerminal(events[Len(events)])
        /\ Cardinality({p \in DOMAIN events : IsTerminal(events[p])}) = 1

\* C2: every closed stream carries exactly one terminal event (done or error),
\* which is its last event, and once the controller is closed it stays closed
\* and no event is written any more.
C2_TerminalOnce ==
    /\ [](C2_ClosedHasOneTerminal)
    /\ [][closed => (closed' /\ events' = events)]_vars

C2_Witness ==
    /\ closed
    /\ events[Len(events)].type = "done"
    /\ Cardinality(OfType("chunk")) >= 2

\* C3: info is written at most once, exactly once as soon as a stream whose
\* acquisition succeeded has resumed, and before every progress; its
\* totalChunks is the number of chunks chunkWords gives for the assembled
\* text, at least 1; every progress.total equals it; a stream ending in done
\* carries exactly totalChunks progress and totalChunks chunk events.
C3_InfoAndCounts ==
    LET infos == OfType("info")
    IN /\ Cardinality(infos) <= 1
       /\ (pc \in {"cleanChunk", "end"} /\ tr.status = "fulfilled")
             => Cardinality(infos) = 1
       /\ tr.status # "fulfilled" => infos = {}
       /\ \A p \in OfType("progress") :
             \E j \in infos : j < p /\ events[p].total = events[j].totalChunks
       /\ \A j \in infos :
             /\ events[j].totalChunks
                   = Len(chunkWords(buildRawText(tr.items).text, WORDS_PER_CHUNK))
             /\ events[j].totalChunks >= 1
             /\ events[j].totalChunks = Len(chunks)
       /\ (events # <<>> /\ events[Len(events)].type = "done")
             => \E j \in infos :
                   /\ Cardinality(OfType("progress")) = events[j].totalChunks
                   /\ Cardinality(OfType("chunk")) = events[j].totalChunks

C3_Witness ==
    /\ events # <<>> /\ events[Len(events)].type = "done"
    /\ \E j \in OfType("info") : events[j].totalChunks = Len(chunks)
    /\ Len(chunks) >= 2
    /\ Cardinality(OfType("chunk")) = Len(chunks)

\* C4: the q-th progress event has current = q and the q-th chunk event has
\* index q - 1; the rewrite of chunk i starts right after progress{i+1} was
\* written, and chunk{i} is the event written right after that rewrite
\* returned, directly following progress{i+1}.
C4_ProgressThenRewriteThenChunk ==
    /\ \A p \in OfType("progress") :
          events[p].current = Cardinality({q \in OfType("progress") : q <= p})
    /\ \A p \in OfType("chunk") :
          /\ events[p].index = Cardinality({q \in OfType("chunk") : q <= p}) - 1
          /\ p > 1 /\ events[p - 1].type = "progress"
          /\ events[p - 1].current = events[p].index + 1
          /\ \E k \in CallsOf("cleanChunk") :
                /\ calls[k].index = events[p].index
                /\ calls[k].startAt = p - 1 /\ calls[k].endAt = p - 1
                /\ calls[k].outcome = "returned"
    /\ \A k \in CallsOf("cleanChunk") :
          /\ calls[k].startAt >= 1
          /\ events[calls[k].startAt].type = "progress"
          /\ events[calls[k].startAt].current = calls[k].index + 1
          /\ (calls[k].outcome = "returned" /\ Len(events) > calls[k].endAt)
                => /\ events[calls[k].endAt + 1].type = "chunk"
                   /\ events[calls[k].endAt + 1].index = calls[k].index

C4_Witness ==
    /\ Cardinality(OfType("chunk")) = 2
    /\ Cardinality(OfType("progress")) = 3
    /\ pc = "cleanChunk"

\* C5: at most one rewrite is in flight; the q-th rewrite started is that of
\* chunk q - 1 and every earlier rewrite had returned; two invocations are in
\* flight together only if they are the metadata lookup and an acquisition
\* adapter.
C5_SequentialRewrites ==
    /\ Cardinality(InFlight \cap CallsOf("cleanChunk")) <= 1
    /\ \A k \in CallsOf("cleanChunk") :
          /\ calls[k].index = Cardinality({j \in CallsOf("cleanChunk") : j <= k}) - 1
          /\ \A j \in CallsOf("cleanChunk") : j < k => calls[j].outcome = "returned"
    /\ \A j, k \in InFlight :
          j # k => \/ calls[j].op = "fetchVideoMeta" /\ calls[k].op \in AcquisitionOps
                   \/ calls[k].op = "fetchVideoMeta" /\ calls[j].op \in AcquisitionOps

C5_Witness ==
    \E k \in InFlight :
        /\ calls[k].op = "cleanChunk" /\ calls[k].index = 2
        /\ Cardinality(CallsOf("cleanChunk")) = 3

\* C6 (state part): when a rewrite has thrown, the events written before it
\* are followed by one error event only, the stream is closed, the chunk
\* events are those of the chunks before the failed one, no done was written
\* and the response status is still 200.
C6_AfterRewriteFailure ==
    \A k \in CallsOf("cleanChunk") :
        calls[k].outcome = "threw" =>
            /\ Len(events) = calls[k].endAt + 1
            /\ events[Len(events)].type = "error"
            /\ closed /\ pc = "end"
            /\ {events[p].index : p \in OfType("chunk")} = 0..(calls[k].index - 1)
            /\ Cardinality(OfType("progress")) = calls[k].index + 1
            /\ OfType("done") = {}
            /\ Cardinality(OfType("error")) = 1
            /\ response.status = 200

\* C6: a failed rewrite of chunk i leaves the events already written in place,
\* adds exactly one error event and closes the stream: no chunk event of index
\* >= i, no further progress and no done follow, and the status of the started
\* response never changes.
C6_RewriteFailureEndsStream ==
    /\ [](C6_AfterRewriteFailure)
    /\ [][/\ Len(events') >= Len(events)
          /\ SubSeq(events', 1, Len(events)) = events
          /\ response.kind = "stream" => response' = response]_vars

C6_Witness ==
    \E k \in CallsOf("cleanChunk") :
        /\ calls[k].outcome = "threw" /\ calls[k].index = 1
        /\ Types = <<"status", "info", "progress", "chunk", "progress", "error">>

\* The Identifier Resolver yields no identifier for the url
NoIdentifier(url) == extractVideoId(url).isNull \/ extractVideoId(url).id = <<>>

\* C7: POST answers with a JSON error and no stream, by the first check that
\* fails: body not parseable 400, url missing 400, no identifier 400,
\* rewrite-backend credential missing 500; then nothing is invoked and no
\* event is written.
C7_ValidationOrder ==
    pc # "idle" =>
        /\ request.kind # "object"
              => response = [status |-> 400, kind |-> "json",
                             error |-> "Invalid request body"]
        /\ (request.kind = "object" /\ request.url.kind = "missing")
              => response = [status |-> 400, kind |-> "json",
                             error |-> "URL is required"]
        /\ (request.kind = "object" /\ request.url.kind # "missing"
                /\ NoIdentifier(request.url))
              => response = [status |-> 400, kind |-> "json",
                             error |-> "Invalid YouTube URL"]
        /\ (request.kind = "object" /\ request.url.kind # "missing"
                /\ ~NoIdentifier(request.url) /\ ~env.ANTHROPIC_API_KEY)
              => response = [status |-> 500, kind |-> "json",
                             error |-> "Server configuration error: missing API key"]
        /\ (request.kind = "object" /\ request.url.kind # "missing"
                /\ ~NoIdentifier(request.url) /\ env.ANTHROPIC_API_KEY)
              => response.kind = "stream" /\ response.status = 200
        /\ response.kind = "json"
              => pc = "rejected" /\ events = <<>> /\ calls = <<>> /\ ~closed

C7_Witness ==
    /\ pc = "rejected"
    /\ request.kind = "object" /\ request.url.kind = "url"
    /\ NoIdentifier(request.url)
    /\ ~env.ANTHROPIC_API_KEY
    /\ response.status = 400

\* A failure of the primary adapter that is neither a definitive provider code
\* nor one of the adapter's own classifications
IsTransient(err) ==
    \/ err.name = "SupadataError"
          /\ err.code \notin {"transcript-unavailable", "not-found"}
    \/ err.name = "Error"

\* C8: the fallback adapter is never invoked more than once; when the primary
\* adapter failed with a transient or unknown error it is invoked exactly
\* once, after the primary adapter, and the acquisition settles as the
\* fallback adapter settles (its cues, or its error).
C8_FallbackOnceOnTransient ==
    /\ Cardinality(CallsOf("fetchViaAndroid")) <= 1
    /\ IsTransient(tr.primaryErr) =>
          /\ env.SUPADATA_API_KEY
          /\ Cardinality(CallsOf("fetchViaSupadata")) = 1
          /\ \E k \in CallsOf("fetchViaAndroid") :
                /\ \A j \in CallsOf("fetchViaSupadata") :
                      j < k /\ calls[j].outcome = "threw"
                             /\ calls[j].err = tr.primaryErr
                /\ calls[k].outcome = "pending" <=> tr.status = "pending"
                /\ calls[k].outcome = "returned" <=> tr.status = "fulfilled"
                /\ calls[k].outcome = "threw"
                      <=> (tr.status = "rejected" /\ tr.reason = calls[k].err)

C8_Witness ==
    /\ tr.primaryErr = SupadataError("limit-exceeded")
    /\ tr.status = "rejected" /\ tr.reason = IpBlockedError
    /\ Cardinality(CallsOf("fetchViaAndroid")) = 1

\* C9: when the primary adapter failed with its own not-available
\* classification (job failed, polling exhausted, empty content) the fallback
\* adapter is not invoked and that error is the outcome of the acquisition.
C9_NotAvailableIsTerminal ==
    tr.primaryErr = TranscriptsNotAvailableError =>
        /\ CallsOf("fetchViaAndroid") = {}
        /\ tr.status = "rejected" /\ tr.reason = TranscriptsNotAvailableError

\* C10: when the provider reports 'transcript-unavailable' or 'not-found' the
\* acquisition is rejected at once with transcripts-disabled or
\* video-unavailable, and the fallback adapter is never invoked.
C10_DefinitiveProviderCodes ==
    /\ tr.primaryErr = SupadataError("transcript-unavailable") =>
          /\ tr.status = "rejected" /\ tr.reason = TranscriptsDisabledError
          /\ CallsOf("fetchViaAndroid") = {}
    /\ tr.primaryErr = SupadataError("not-found") =>
          /\ tr.status = "rejected" /\ tr.reason = VideoUnavailableError
          /\ CallsOf("fetchViaAndroid") = {}

C10_Witness ==
    /\ tr.primaryErr = SupadataError("not-found")
    /\ tr.reason = VideoUnavailableError
    /\ pc = "end" /\ events[Len(events)].type = "error"

\* C11: without a configured primary credential the primary adapter is never
\* invoked and the fallback adapter is the first and only adapter invoked;
\* whenever the fallback adapter has thrown, its error is the outcome of the
\* acquisition and no adapter is invoked after it.
C11_NoCredentialStraightToFallback ==
    /\ (~env.SUPADATA_API_KEY /\ response.kind = "stream") =>
          /\ CallsOf("fetchViaSupadata") = {}
          /\ Cardinality(CallsOf("fetchViaAndroid")) = 1
          /\ tr.primaryErr = NoErr
    /\ \A k \in CallsOf("fetchViaAndroid") :
          calls[k].outcome = "threw" =>
              /\ tr.status = "rejected" /\ tr.reason = calls[k].err
              /\ \A j \in DOMAIN calls :
                    calls[j].op \in AcquisitionOps => j <= k

C11_Witness ==
    /\ ~env.SUPADATA_API_KEY
    /\ \E k \in CallsOf("fetchViaAndroid") : calls[k].err = PoTokenRequiredError
    /\ tr.status = "rejected" /\ tr.reason = PoTokenRequiredError
    /\ pc = "end" /\ events[Len(events)].type = "error"

\* C12: a request whose body carries a provider credential is treated as
\* having a configured primary credential: once it is accepted the primary
\* adapter is attempted, and before the fallback adapter.
C12_BodyCredentialConfiguresPrimary ==
    (request.kind = "object" /\ request.supadataKey /\ response.kind = "stream") =>
        /\ CallsOf("fetchViaSupadata") # {}
        /\ \A j \in CallsOf("fetchViaSupadata"), k \in CallsOf("fetchViaAndroid") :
              j < k

\* The acquisition has delivered cues and the stream has gone past
\* Promise.allSettled
CuesDelivered ==
    pc \in {"cleanChunk", "end"} /\ tr.status = "fulfilled" /\ tr.items # <<>>

RewriteThrew == \E k \in CallsOf("cleanChunk") : calls[k].outcome = "threw"

\* The metadata lookup never rejects, and with cues delivered the stream
\* carries info, then progress and chunk for every chunk, then done, whatever
\* the lookup returned; only a failed rewrite ends it with an error.
EmittedWhateverMeta ==
    /\ mt.status # "rejected"
    /\ CuesDelivered =>
          /\ Cardinality(OfType("info")) = 1
          /\ OfType("error") # {} => RewriteThrew
          /\ (pc = "end" /\ ~RewriteThrew) =>
                /\ events[Len(events)].type = "done"
                /\ Cardinality(OfType("progress")) = Len(chunks)
                /\ Cardinality(OfType("chunk")) = Len(chunks)

\* C13 as stated: a metadata failure never aborts or delays the transcript;
\* info, progress, chunk and done are emitted whatever the outcome of the
\* lookup, and info does not have to wait for the lookup to settle: once the
\* acquisition has delivered cues the step that writes info can be taken.
C13_InfoNeedNotWaitForMeta ==
    /\ EmittedWhateverMeta
    /\ (pc = "allSettled" /\ tr.status = "fulfilled" /\ tr.items # <<>>) =>
          ENABLED Settled

\* C13: a metadata failure never aborts the transcript: the lookup never
\* rejects, and with cues delivered info, progress, chunk and done are
\* emitted whatever the outcome of the lookup; info is written only once the
\* lookup has settled too.
C13_MetaFailureNeverAborts ==
    /\ EmittedWhateverMeta
    /\ OfType("info") # {} => mt.status = "fulfilled"

C13_Witness ==
    /\ CuesDelivered /\ pc = "end"
    /\ events[Len(events)].type = "done"
    /\ ~mt.value.present /\ ~tr.meta.present
    /\ \E k \in CallsOf("fetchVideoMeta") : calls[k].outcome = "returned"
    /\ Len(chunks) >= 2

\* C14: at most one meta event is written, and none before both promises
\* have settled; it carries the metadata of the independent lookup when that
\* produced one, else the metadata the transcript path returned with its
\* cues, else there is no meta event. The transcript path carries metadata
\* only when the fallback adapter returned; a returned primary adapter
\* contributes none.
C14_MetaSelection ==
    /\ Cardinality(OfType("meta")) <= 1
    /\ pc = "allSettled" => OfType("meta") = {}
    /\ pc \in {"cleanChunk", "end"} =>
          IF mt.value.present
          THEN \E p \in OfType("meta") : events[p] = EvMeta(mt.value)
          ELSE IF tr.status = "fulfilled" /\ tr.meta.present
          THEN \E p \in OfType("meta") : events[p] = EvMeta(tr.meta)
          ELSE OfType("meta") = {}
    /\ (tr.status = "fulfilled" /\ tr.meta.present) =>
          \E k \in CallsOf("fetchViaAndroid") : calls[k].outcome = "returned"
    /\ (\E k \in CallsOf("fetchViaSupadata") : calls[k].outcome = "returned") =>
          tr.status = "fulfilled" /\ ~tr.meta.present

C14_Witness ==
    /\ pc \in {"cleanChunk", "end"}
    /\ mt.status = "fulfilled" /\ ~mt.value.present
    /\ tr.meta.present
    /\ \E p \in OfType("meta") : events[p] = EvMeta(tr.meta)

\* the lookup and the transcript path both produced metadata, and they differ
C14_WitnessBoth ==
    /\ pc \in {"cleanChunk", "end"}
    /\ mt.value.present /\ tr.meta.present /\ mt.value # tr.meta
    /\ \E p \in OfType("meta") : events[p] = EvMeta(mt.value)

\* the words of the chunks, in index order
RECURSIVE WordsOfChunks(_)
WordsOfChunks(chs) ==
    IF chs = <<>> THEN <<>> ELSE SplitWs(Head(chs)) \o WordsOfChunks(Tail(chs))

\* C15: for every text and every chunk size N >= 1, splitting each chunk
\* returned by chunkWords on whitespace and concatenating the results in
\* index order gives exactly the word sequence of the text.
C15_ChunkRoundTrip ==
    fn.op = "chunkWords" => WordsOfChunks(fn.out) = SplitWs(fn.text)

\* five words in chunks of two: two full chunks and a remainder of one word
C15_Witness ==
    /\ fn.op = "chunkWords" /\ fn.wordsPerChunk = 2
    /\ fn.text = <<"a", " ", "b", " ", "a", " ", "b", " ", "b">>
    /\ fn.out = << <<"a", " ", "b">>, <<"a", " ", "b">>, <<"b">> >>

\* four words one by one: several multiples of the chunk size
C15_WitnessMultiples ==
    /\ fn.op = "chunkWords" /\ fn.wordsPerChunk = 1
    /\ fn.text = <<"a", " ", "b", " ", "b", " ", "a">>
    /\ fn.out = << <<"a">>, <<"b">>, <<"b">>, <<"a">> >>

\* no word at all: the empty text
C15_WitnessEmpty ==
    fn.op = "chunkWords" /\ fn.text = <<>> /\ fn.out = << <<>> >>

\* The markers of a text: its words that open with a bracket (no cue text of
\* the model does)
Markers(text) ==
    SelectSeq(SplitWs(text), LAMBDA w : w # <<>> /\ Head(w) = "[")

\* more than one cue, offsets from 0 upwards and strictly increasing
RealOffsets(items) ==
    /\ Len(items) > 1
    /\ \A k \in 1..Len(items) : items[k].offset >= 0
    /\ \A k \in 1..(Len(items) - 1) : items[k].offset < items[k + 1].offset

LastOffset(items) == items[Len(items)].offset

C16_WitnessExact ==
    /\ fn.op = "buildRawText"
    /\ [k \in 1..Len(fn.items) |-> fn.items[k].offset] = <<0, 60000, 120000>>
    /\ Len(Markers(fn.out.text)) = 3

\* more than one cue and at least one cue with a nonzero offset
HasRealTiming(items) ==
    Len(items) > 1 /\ \E k \in 1..Len(items) : items[k].offset # 0

\* the flag of buildRawText for the delivered cues is as the claim has it, the
\* text without the flag has no marker, and info carries the flag
FlagOfDeliveredCues ==
    LET raw == buildRawText(tr.items)
    IN /\ raw.hasTimecodes <=> HasRealTiming(tr.items)
       /\ ~raw.hasTimecodes => Markers(raw.text) = <<>>
       /\ hasTimecodes = raw.hasTimecodes
       /\ \A p \in OfType("info") : events[p].hasTimecodes = raw.hasTimecodes

\* C17 as stated: hasTimecodes is true iff there is more than one cue and a
\* nonzero offset; when it is false the text has no marker and is the plain
\* single-space join of the cue texts; info.hasTimecodes equals the flag.
C17_PlainJoinWithoutTiming ==
    CuesDelivered =>
        /\ FlagOfDeliveredCues
        /\ ~hasTimecodes =>
              buildRawText(tr.items).text
                  = Join([k \in 1..Len(tr.items) |-> tr.items[k].text], <<" ">>)

\* C17: hasTimecodes is true iff there is more than one cue and a nonzero
\* offset; when it is false the text has no marker and is the single-space
\* join of the cue texts with every newline in them replaced by a space;
\* info.hasTimecodes equals the flag.
C17_FlagAndJoinWithoutTiming ==
    CuesDelivered =>
        /\ FlagOfDeliveredCues
        /\ ~hasTimecodes =>
              buildRawText(tr.items).text
                  = Join([k \in 1..Len(tr.items) |->
                              ReplaceNewlines(tr.items[k].text)], <<" ">>)

\* a single cue with a nonzero offset: no flag, no marker
C17_Witness ==
    /\ CuesDelivered
    /\ Len(tr.items) = 1 /\ tr.items[1].offset > 0
    /\ \E p \in OfType("info") : ~events[p].hasTimecodes
    /\ \E p \in OfType("chunk") : TRUE

\* a cue text with a newline in it, without timing data
C17_WitnessNewline ==
    /\ CuesDelivered /\ ~hasTimecodes
    /\ \E k \in 1..Len(tr.items) : "\n" \in Range(tr.items[k].text)

\* several cues, all at offset 0
C17_WitnessAllZero ==
    /\ CuesDelivered /\ ~hasTimecodes /\ Len(tr.items) > 1

DecimalDigits == <<"0", "1", "2", "3", "4", "5", "6", "7", "8", "9">>

IsNumeral(s) == s # <<>> /\ \A k \in 1..Len(s) : s[k] \in Range(DecimalDigits)

\* the value of a numeral
RECURSIVE ValueOf(_)
ValueOf(s) ==
    IF s = <<>> THEN 0
    ELSE 10 * ValueOf(SubSeq(s, 1, Len(s) - 1))
         + (CHOOSE d \in 0..9 : DecimalDigits[d + 1] = s[Len(s)])

\* a numeral without padding
Unpadded(s) == IsNumeral(s) /\ (Len(s) > 1 => Head(s) # "0")

\* C18: for t >= 0 formatTimecodeMarker(t) is [M:SS] when floor(t) < 3600 and
\* [H:MM:SS] from 3600 s on, with H >= 1; the seconds, and the minutes of the
\* hour form, have exactly two digits and are below 60, the leading field is
\* not padded, and the fields give back floor(t): H*3600 + M*60 + S, so
\* distinct whole seconds have distinct markers.
C18_MarkerFormat ==
    fn.op = "formatTimecodeMarker" =>
        LET out == fn.out
            f   == SplitOn(SubSeq(out, 2, Len(out) - 1), ":")
            t   == fn.totalMs \div 1000
        IN /\ Len(out) >= 6 /\ out[1] = "[" /\ out[Len(out)] = "]"
           /\ \A k \in 1..Len(f) : IsNumeral(f[k])
           /\ Len(f) = IF t >= 3600 THEN 3 ELSE 2
           /\ Unpadded(f[1])
           /\ \A k \in 2..Len(f) : Len(f[k]) = 2 /\ ValueOf(f[k]) < 60
           /\ Len(f) = 3 => ValueOf(f[1]) >= 1
           /\ t = IF Len(f) = 3
                  THEN ValueOf(f[1]) * 3600 + ValueOf(f[2]) * 60 + ValueOf(f[3])
                  ELSE ValueOf(f[1]) * 60 + ValueOf(f[2])

\* the first marker of the hour form
C18_Witness ==
    /\ fn.op = "formatTimecodeMarker" /\ fn.totalMs = 3600000
    /\ fn.out = <<"[", "1", ":", "0", "0", ":", "0", "0", "]">>

\* the last marker of the minute form, from a time with a fraction
C18_WitnessMinuteForm ==
    /\ fn.op = "formatTimecodeMarker" /\ fn.totalMs = 3599999
    /\ fn.out = <<"[", "5", "9", ":", "5", "9", "]">>

\* what the parts of a string say, independently of the parser: the value of
\* its first query pair named v, and the segment after /embed/
VOfShape(sh) ==
    LET vs == {k \in 1..Len(sh.query) : sh.query[k].name = <<"v">>}
    IN IF vs = {} THEN <<>>
       ELSE sh.query[CHOOSE k \in vs : \A j \in vs : k <= j].value

EmbedIdOfShape(sh) ==
    IF StartsWith(sh.path, <<"/", "e", "m", "b", "e", "d", "/">>)
    THEN SplitOn(SubSeq(sh.path, 8, Len(sh.path)), "/")[1]
    ELSE <<>>

IsUrlShape(sh) == sh.scheme # <<>>
CanonicalHosts == {HostCanonical, HostMobile, HostBare}
Found(id) == [isNull |-> FALSE, id |-> id]

\* C19: whatever whitespace surrounds the string, a short-link URL gives its
\* path segment; a canonical-host URL gives the value of v when v is present
\* and not empty, and otherwise the <id> of its /embed/<id> path.
C19_SupportedShapes ==
    (fn.op = "extractVideoId" /\ IsUrlShape(fn.shape)) =>
        LET sh == fn.shape
        IN /\ (sh.host = HostShort /\ sh.path = <<"/", "a", "b">>) =>
                 fn.out = Found(<<"a", "b">>)
           /\ (sh.host \in CanonicalHosts /\ VOfShape(sh) # <<>>) =>
                 fn.out = Found(VOfShape(sh))
           /\ (sh.host \in CanonicalHosts /\ VOfShape(sh) = <<>>
                  /\ EmbedIdOfShape(sh) # <<>>) =>
                 fn.out = Found(EmbedIdOfShape(sh))

\* v and an /embed/ path together, inside whitespace: v is the identifier
C19_Witness ==
    /\ fn.op = "extractVideoId"
    /\ fn.shape.lead # <<>> /\ fn.shape.trail # <<>>
    /\ fn.shape.host = HostCanonical
    /\ EmbedIdOfShape(fn.shape) = <<"a", "b">>
    /\ fn.out = Found(<<"x", "y">>)
    /\ fn.answer.accepted

\* a short link with a query and surrounding whitespace
C19_WitnessShort ==
    /\ fn.op = "extractVideoId"
    /\ fn.shape.lead # <<>> /\ fn.shape.host = HostShort /\ fn.shape.query # <<>>
    /\ fn.out = Found(<<"a", "b">>)

\* C20: a string that does not parse as a URL, or whose host is neither the
\* short-link host nor a canonical host, resolves to null and POST answers
\* 400; so does a canonical-host URL with neither a v parameter nor an
\* /embed/<id> path.
C20_NoIdentifierElsewhere ==
    fn.op = "extractVideoId" =>
        LET sh == fn.shape
        IN ((\/ ~IsUrlShape(sh)
             \/ sh.host \notin CanonicalHosts \cup {HostShort}
             \/ /\ sh.host \in CanonicalHosts
                /\ VOfShape(sh) = <<>> /\ EmbedIdOfShape(sh) = <<>>)
            => (fn.out.isNull /\ fn.answer.status = 400))

\* replies of the backend whose first content block is not of type text
NonTextReplies ==
    {r \in RewriterReplies :
        r.kind = "message" /\ r.content # <<>> /\ r.content[1].type # "text"}

C22_AcquisitionFailureEndsStream ==
    tr.status = "rejected" =>
        /\ OfType("info") \cup OfType("progress") \cup OfType("chunk")
              \cup OfType("done") = {}
        /\ CallsOf("cleanChunk") = {}
        /\ pc \in {"allSettled", "end"}
        /\ pc = "end" =>
              /\ closed
              /\ events[Len(events)] = EvError(AcquisitionMessage(tr.reason))
              /\ Cardinality(OfType("error")) = 1
              /\ tr.reason = IpBlockedError =>
                    events[Len(events)].message
                        = <<"YouTube is blocking this server's requests.">>

\* the watch page carried the bot-block marker
C22_Witness ==
    /\ tr.status = "rejected" /\ tr.reason = IpBlockedError
    /\ \E k \in CallsOf("fetchViaAndroid") : calls[k].err = IpBlockedError
    /\ pc = "end" /\ closed
    /\ events[Len(events)].type = "error"

\* the chunk events of a sequence have pairwise distinct indices
DistinctIndices(ds) ==
    \A j, k \in 1..Len(ds) : j # k => ds[j].index # ds[k].index

\* the rearrangements of a sequence
Rearrangements(ds) ==
    { [k \in 1..Len(ds) |-> ds[f[k]]] :
        f \in {g \in [1..Len(ds) -> 1..Len(ds)] :
                  \A j, k \in 1..Len(ds) : j # k => g[j] # g[k]} }

Reverse(ds) == [k \in 1..Len(ds) |-> ds[Len(ds) + 1 - k]]

\* C24: for chunk events with pairwise distinct indices the joined transcript
\* is the same in whatever order they are delivered, the reverse order
\* included.
C24_ArrivalOrderIndependent ==
    (fn.op = "reassemble" /\ DistinctIndices(fn.deliveries)) =>
        /\ Displayed(Reassemble(<<>>, Reverse(fn.deliveries))) = fn.transcript
        /\ \A ds \in Rearrangements(fn.deliveries) :
              Displayed(Reassemble(<<>>, ds)) = fn.transcript

\* three chunks delivered last first
C24_Witness ==
    /\ fn.op = "reassemble"
    /\ [k \in 1..Len(fn.deliveries) |-> fn.deliveries[k].index] = <<2, 1, 0>>
    /\ fn.deliveries[1].text = <<"A">> /\ fn.deliveries[3].text = <<"B", "\n", "C">>
    /\ fn.deliveries[2].text = <<"A">>
    /\ fn.transcript = <<"B", "\n", "C">> \o BlankLine \o <<"A">> \o BlankLine \o <<"A">>

\* What has been received, read off the deliveries themselves: the indices in
\* increasing order, and for each index the text delivered last for it
ReceivedIndices(ds) ==
    SelectSeq([k \in 1..(MaxChunkIndex + 2) |-> k - 1],
              LAMBDA i : \E k \in 1..Len(ds) : ds[k].index = i)

LatestText(ds, i) ==
    LET ks == {k \in 1..Len(ds) : ds[k].index = i}
    IN ds[CHOOSE k \in ks : \A j \in ks : j <= k].text

\* C25 as stated: after any sequence of chunk events the transcript is the
\* texts of exactly the received indices, by increasing index, joined by a
\* blank line; every received index contributes its text.
C25_JoinOfReceivedIndices ==
    fn.op = "reassemble" =>
        LET is == ReceivedIndices(fn.deliveries)
        IN fn.transcript
             = Join([k \in 1..Len(is) |-> LatestText(fn.deliveries, is[k])], BlankLine)

\* C25: after any sequence of chunk events the transcript is the texts of
\* exactly the received indices whose text is not empty, by increasing index,
\* joined by a blank line; slots not received and received empty texts
\* contribute nothing, not even a separator.
C25_JoinOfReceivedNonEmpty ==
    fn.op = "reassemble" =>
        LET is == SelectSeq(ReceivedIndices(fn.deliveries),
                            LAMBDA i : LatestText(fn.deliveries, i) # <<>>)
        IN fn.transcript
             = Join([k \in 1..Len(is) |-> LatestText(fn.deliveries, is[k])], BlankLine)

\* index 2 arrived before index 0 and index 1 has not arrived
C25_Witness ==
    /\ fn.op = "reassemble"
    /\ fn.deliveries = <<EvChunk(2, <<"A">>), EvChunk(0, <<"B", "\n", "C">>)>>
    /\ fn.collected[2] = Hole
    /\ fn.transcript = <<"B", "\n", "C">> \o BlankLine \o <<"A">>

\* a received chunk with an empty text between two others
C25_WitnessEmptyText ==
    /\ fn.op = "reassemble"
    /\ fn.deliveries = <<EvChunk(0, <<"A">>), EvChunk(1, <<>>), EvChunk(2, <<"A">>)>>
    /\ fn.transcript = <<"A">> \o BlankLine \o <<"A">>

\* the calls of handleSubmit whose stream ended (reader.read() answered done)
\* and that no later submission followed
EndedByTransport ==
    { r \in 1..Len(client.reqs) :
        r = Len(client.reqs) /\ client.reqs[r].how = "stream-end" }

\* C23: once the transport of a request has ended, the status of the page is
\* done exactly when a done event was handled, error with the message of the
\* error event exactly when an error event was handled, and error with the
\* synthesized cut-off message exactly when neither was; it is never loading
\* or processing.
C23_TerminalStatus ==
    \A r \in EndedByTransport :
        LET got == client.reqs[r].got
            status == client.status
        IN /\ client.setter = r
           /\ status.kind \in {"done", "error"}
           /\ status.kind = "done" <=> got.type = "done"
           /\ got.type = "error" => status.kind = "error" /\ status.message = got.message
           /\ (status.kind = "error" /\ status.message # CutOffMessage)
                 => got.type = "error"
           /\ (status.kind = "error" /\ status.message = CutOffMessage)
                 <=> got = NoLine
           /\ got = NoLine <=> ~client.reqs[r].receivedCompletion

\* a stream that ended after an info event and before any terminal event: the
\* page shows the cut-off error
C23_Witness ==
    \E r \in EndedByTransport :
        /\ client.reqs[r].got = NoLine
        /\ client.hasTimecodes
        /\ client.status = [kind |-> "error", message |-> CutOffMessage]

\* a stream that ended after a done event
C23_WitnessDone ==
    \E r \in EndedByTransport :
        client.reqs[r].got = EvDone /\ client.status = [kind |-> "done"]

\* the calls of handleSubmit whose controller was not aborted
NotAborted(page) ==
    { r \in 1..Len(page.reqs) : ~page.reqs[r].aborted }

StartsUpstreamWork ==
    \/ tr'.status = "pending" /\ (tr'.pc # tr.pc \/ tr'.attempt # tr.attempt)
    \/ mt'.status = "pending" /\ mt'.pc # mt.pc
    \/ CallsOf("cleanChunk")' # CallsOf("cleanChunk")

\* C27: once the client has cancelled the request, its pipeline starts no
\* further poll of the provider's job, no further upstream fetch and no
\* further rewrite call.
C27_CancelReleasesPipeline ==
    [][cancelled => ~StartsUpstreamWork]_vars

\* the part of it that the code keeps: no rewrite call starts after the
\* cancellation
C27_NoRewriteAfterCancel ==
    [][cancelled => CallsOf("cleanChunk")' = CallsOf("cleanChunk")]_vars

\* the terminal kinds of acquisition failure
TerminalKinds ==
    { VideoUnavailableError, TranscriptsDisabledError, TranscriptsNotAvailableError,
      IpBlockedError, PoTokenRequiredError }

\* the stream ended on an acquisition failure
AcquisitionFailed == tr.status = "rejected" /\ pc = "end"

\* C28: the error event of an acquisition failure of one of the five terminal
\* kinds carries a fixed message of its own, different from the message of
\* every other kind and without the text of the error; when the primary
\* adapter failed with a transient error, the message is the one of the
\* fallback adapter's failure and carries the text of the primary's error
\* only if the fallback adapter's error has the same text.
C28_AcquisitionTaxonomy ==
    AcquisitionFailed =>
        LET message == events[Len(events)].message
        IN /\ events[Len(events)].type = "error"
           /\ tr.reason \in TerminalKinds =>
                 /\ Len(message) = 1
                 /\ tr.reason.message \notin Range(message)
                 /\ \A other \in TerminalKinds \ {tr.reason} :
                        AcquisitionMessage(other) # message
           /\ IsTransient(tr.primaryErr) =>
                 \E k \in CallsOf("fetchViaAndroid") :
                     /\ calls[k].outcome = "threw"
                     /\ message = AcquisitionMessage(calls[k].err)
                     /\ tr.primaryErr.message # calls[k].err.message
                           => tr.primaryErr.message \notin Range(message)

\* the provider was out of quota and the fallback adapter found the
\* transcripts disabled
C28_Witness ==
    /\ AcquisitionFailed
    /\ tr.primaryErr = SupadataError("limit-exceeded")
    /\ tr.reason = TranscriptsDisabledError
    /\ events[Len(events)].message = <<"Transcripts are disabled for this video.">>

\* the kind of a failure of the rewrite backend: the backend answers 429 when
\* it limits the rate, 401 to a bad key, 529 when it is overloaded and another
\* 5xx on an internal error; 402 (no credit left) is a kind the route knows
\* beyond these
RewriteKind(err) ==
    CASE err.name = "RateLimitError" -> "rate-limit"
      [] err.name = "AuthenticationError" -> "authentication"
      [] IsAPIError(err) /\ err.status = 529 -> "backend-overloaded"
      [] err.name = "InternalServerError" -> "backend-internal-error"
      [] IsAPIError(err) /\ err.status = 402 -> "credit-limit"
      [] err.name = "APIConnectionError" -> "connection-lost"
      [] OTHER -> "unrecognized"

\* C29: the error event of a failed rewrite carries, for each of the kinds
\* rate-limit, authentication, backend-internal-error, backend-overloaded and
\* connection-lost, a fixed message that no other kind has; for an exception
\* that is not recognized it carries the text of the error.
C29_RewriteTaxonomy ==
    \A k \in CallsOf("cleanChunk") :
        (calls[k].outcome = "threw" /\ pc = "end") =>
            LET err == calls[k].err
                message == events[Len(events)].message
            IN /\ events[Len(events)].type = "error"
               /\ RewriteKind(err) = "unrecognized" => message = <<err.message>>
               /\ RewriteKind(err) \notin {"unrecognized", "credit-limit"} =>
                     /\ message # <<err.message>>
                     /\ \A other \in RewriterThrows :
                            RewriteKind(other) # RewriteKind(err)
                                => RewriteMessage(other) # message

\* the same with the kinds of the route: an overloaded backend is an internal
\* error among others, and a backend out of credit is a kind
RouteKind(err) ==
    IF RewriteKind(err) = "backend-overloaded" THEN "backend-internal-error"
    ELSE RewriteKind(err)

C29_RouteTaxonomy ==
    \A k \in CallsOf("cleanChunk") :
        (calls[k].outcome = "threw" /\ pc = "end") =>
            LET err == calls[k].err
                message == events[Len(events)].message
            IN /\ events[Len(events)].type = "error"
               /\ RouteKind(err) = "unrecognized" => message = <<err.message>>
               /\ RouteKind(err) # "unrecognized" =>
                     /\ message # <<err.message>>
                     /\ \A other \in RewriterThrows :
                            RouteKind(other) # RouteKind(err)
                                => RewriteMessage(other) # message

ScenarioText ==
    << "[", "0", ":", "0", "0", "]", " ", "h", "e", "l", "l", "o", " ", "w",
       "o", "r", "l", "d", " ", "[", "1", ":", "0", "5", "]", " ", "m", "o",
       "r", "e", " ", "t", "e", "x", "t" >>

\* C30: with no credential for the primary adapter, the fallback adapter
\* delivering the cues 'hello world' at 0 s and 'more text' at 65 s, no
\* metadata, a chunk size of 6 words or more and a rewriter that returns its
\* input, the stream carries exactly status, info (1 chunk, timecodes),
\* progress 1 of 1, chunk 0 with "[0:00] hello world [1:05] more text", done.
C30_EndToEndScenario ==
    (/\ fn.op = "stream" /\ fn.first = "fetchViaAndroid"
     /\ fn.items = ScenarioCues /\ fn.wordsPerChunk >= 6) =>
        /\ Len(fn.events) = 5
        /\ fn.events[1].type = "status"
        /\ fn.events[2].type = "info"
        /\ fn.events[2].totalChunks = 1 /\ fn.events[2].hasTimecodes
        /\ fn.events[3] = EvProgress(1, 1)
        /\ fn.events[4] = EvChunk(0, ScenarioText)
        /\ fn.events[5] = EvDone
        /\ fn.closed

C30_Witness ==
    /\ fn.op = "stream" /\ fn.first = "fetchViaAndroid"
    /\ fn.items = ScenarioCues /\ fn.wordsPerChunk = 6
    /\ fn.events[4].type = "chunk" /\ fn.events[4].text = ScenarioText

\* with a chunk size of 5 the same cues make two chunks
C30_WitnessSmallerChunks ==
    /\ fn.op = "stream" /\ fn.items = ScenarioCues /\ fn.wordsPerChunk = 5
    /\ fn.events[2].totalChunks = 2

\* the whole seconds a marker shows
SecondsOfMarker(m) ==
    LET f == SplitOn(SubSeq(m, 2, Len(m) - 1), ":")
    IN IF Len(f) = 3
       THEN ValueOf(f[1]) * 3600 + ValueOf(f[2]) * 60 + ValueOf(f[3])
       ELSE ValueOf(f[1]) * 60 + ValueOf(f[2])

IsMarker(w) == w # <<>> /\ Head(w) = "[" /\ w[Len(w)] = "]"

\* the cues that are due a marker: the first, and then every cue whose offset
\* is 60 s or more past the offset of the last cue before it that is due one
MarkedCues(items) ==
    CHOOSE M \in SUBSET (1..Len(items)) :
        \A k \in 1..Len(items) :
            k \in M <=>
                \/ k = 1
                \/ LET before == {j \in M : j < k}
                   IN /\ before # {}
                      /\ LET last == CHOOSE j \in before : \A i \in before : i <= j
                         IN items[k].offset - items[last].offset
                                >= MARKER_INTERVAL * 1000

\* the words of a cue as they stand in the text
CueWords(item) == SplitWs(Trim(ReplaceNewlines(item.text)))

\* the place in the text of what cue k contributes, given the marked cues
RECURSIVE PlaceOf(_, _, _)
PlaceOf(items, M, k) ==
    IF k = 1 THEN 1
    ELSE PlaceOf(items, M, k - 1) + Len(CueWords(items[k - 1]))
            + (IF (k - 1) \in M THEN 1 ELSE 0)

\* C31: with real timing the text holds a marker before the first cue and
\* before every later cue whose offset is 60 s or more past the offset of the
\* last cue that got a marker, and no other marker: each marker stands right
\* before the words of its cue and shows that cue's offset in whole seconds,
\* consecutive markers are 60 s or more apart, and no cue has two markers.
C31_MarkerSpacing ==
    (fn.op = "buildRawText" /\ HasRealTiming(fn.items)) =>
        LET items == fn.items
            n == Len(items)
            M == MarkedCues(items)
            words == SplitWs(fn.out.text)
        IN /\ fn.out.hasTimecodes
           /\ 1 \in M
           /\ Len(words) = PlaceOf(items, M, n + 1) - 1
           /\ Len(Markers(fn.out.text)) = Cardinality(M)
           /\ \A k \in 1..n :
                 LET at == PlaceOf(items, M, k)
                     own == CueWords(items[k])
                 IN IF k \in M
                    THEN /\ IsMarker(words[at])
                         /\ SecondsOfMarker(words[at]) = items[k].offset \div 1000
                         /\ SubSeq(words, at + 1, at + Len(own)) = own
                    ELSE SubSeq(words, at, at + Len(own) - 1) = own
           /\ \A j, k \in M :
                 (j < k /\ \A i \in M : ~(j < i /\ i < k)) =>
                     items[k].offset - items[j].offset >= MARKER_INTERVAL * 1000

\* cues at 0.5 s, 61 s and 120 s: markers [0:00] and [1:01], none for the
\* third cue, which is 59 s past the second
C31_Witness ==
    /\ fn.op = "buildRawText"
    /\ [k \in 1..Len(fn.items) |-> fn.items[k].offset] = <<500, 61000, 120000>>
    /\ MarkedCues(fn.items) = {1, 2}
    /\ Len(Markers(fn.out.text)) = 2

\* the whitespace-separated words of a text
WordsOf(text) == SelectSeq(SplitWs(text), LAMBDA w : w # <<>>)

\* groups of n of a sequence, the last one with what is left
GroupsOf(seq, n) ==
    [g \in 1..((Len(seq) + n - 1) \div n) |->
        SubSeq(seq, (g - 1) * n + 1, Min(g * n, Len(seq)))]

\* C32: for a text of W whitespace-separated words chunkWords(text, N)
\* returns ceil(W / N) chunks, the g-th being the g-th group of N consecutive
\* words joined by single spaces: N words in every chunk but the last, 1 to N
\* words in the last.
C32_FixedSizeGroups ==
    fn.op = "chunkWords" =>
        LET groups == GroupsOf(WordsOf(fn.text), fn.wordsPerChunk)
        IN /\ Len(fn.out) = Len(groups)
           /\ \A g \in 1..Len(groups) :
                 /\ fn.out[g] = Join(groups[g], <<" ">>)
                 /\ Len(WordsOf(fn.out[g])) >= 1
                 /\ Len(WordsOf(fn.out[g])) <= fn.wordsPerChunk
                 /\ g < Len(groups) => Len(WordsOf(fn.out[g])) = fn.wordsPerChunk

\* what chunkWords groups: the pieces of text.split(/\s+/), among them an
\* empty piece for white space at either end and for the empty text
C32_GroupsOfPieces ==
    fn.op = "chunkWords" =>
        LET groups == GroupsOf(SplitWs(fn.text), fn.wordsPerChunk)
        IN /\ Len(fn.out) = Len(groups)
           /\ \A g \in 1..Len(groups) : fn.out[g] = Join(groups[g], <<" ">>)

\* a text without white space at its ends: the chunks are the groups of words
C32_GroupsOfTrimmedText ==
    (fn.op = "chunkWords" /\ fn.text # <<>> /\ Trim(fn.text) = fn.text) =>
        LET groups == GroupsOf(WordsOf(fn.text), fn.wordsPerChunk)
        IN /\ Len(fn.out) = Len(groups)
           /\ \A g \in 1..Len(groups) : fn.out[g] = Join(groups[g], <<" ">>)

\* the step is the one that SupadataJobStatus takes on the reply
PolledWith(reply) ==
    LET r == OnJobStatus(tr, calls, Len(events), reply)
    IN tr' = r.tr /\ calls' = r.calls

\* fetchViaSupadata threw err in this step
PrimaryThrew(err) ==
    /\ tr'.primaryErr = err
    /\ \E k \in CallsOf("fetchViaSupadata") :
          /\ calls[k].endAt = -1
          /\ calls'[k].outcome = "threw" /\ calls'[k].err = err

\* fetchViaSupadata returned items in this step
PrimaryReturned(items) ==
    /\ tr'.status = "fulfilled" /\ tr'.items = items
    /\ \E k \in CallsOf("fetchViaSupadata") :
          calls[k].endAt = -1 /\ calls'[k].outcome = "returned"

\* a turn of the poll loop, by what the poll reported
PollTurn ==
    tr.pc = "sd_poll" =>
         /\ tr.attempt < MAX_POLL_ATTEMPTS
         /\ \A reply \in JobReplies :
              (reply.kind = "status" /\ PolledWith(reply)) =>
                 LET done == reply.status = "completed" /\ reply.hasResult
                     n    == NormalizeContent(reply.result)
                 IN /\ tr'.pc # "sd_poll"
                       <=> (done \/ reply.status = "failed"
                                 \/ tr.attempt + 1 = MAX_POLL_ATTEMPTS)
                    /\ tr'.pc = "sd_poll" => tr'.attempt = tr.attempt + 1
                    /\ (done /\ n.ok) => PrimaryReturned(n.items)
                    /\ (done /\ ~n.ok) => PrimaryThrew(TranscriptsNotAvailableError)
                    /\ ~done /\ tr'.pc # "sd_poll"
                          => PrimaryThrew(TranscriptsNotAvailableError)

\* the provider's first answer: only a job handle starts the polling
FirstAnswer ==
    (tr.pc = "sd_request" /\ tr' # tr) =>
         /\ \A reply \in SupadataReplies :
              LET r == OnTranscript(tr, calls, Len(events), reply)
              IN (tr' = r.tr /\ calls' = r.calls) =>
                    (tr'.pc = "sd_poll" <=> reply.kind = "jobId")
         /\ tr'.pc = "sd_poll" => tr'.attempt = 0
         /\ tr'.pc # "sd_poll" => \E k \in CallsOf("fetchViaSupadata") :
                                     calls[k].endAt = -1 /\ calls'[k].endAt # -1

\* C33: after a job handle the job status is polled at most 30 times: a poll
\* that reports completion with a result ends the polling with that result, a
\* poll that reports failure ends it with not-available, any other poll but
\* the 30th is followed by one more poll, and the 30th ends it with
\* not-available. A first answer that is not a job handle ends
\* fetchViaSupadata without a poll.
C33_BoundedPolling == [][PollTurn /\ FirstAnswer]_vars

\* the 30th poll is due
C33_Witness == tr.pc = "sd_poll" /\ tr.attempt = MAX_POLL_ATTEMPTS - 1

\* the step in which fetchViaSupadata normalises the content c of a result,
\* come with the first answer or with a poll
NormalisedIn(c) ==
    LET r == PrimaryContent(tr, calls, Len(events), c)
    IN /\ tr.pc \in {"sd_request", "sd_poll"}
       /\ tr' = r.tr /\ calls' = r.calls

HasText(s) == \E k \in 1..Len(s) : ~IsWs(s[k])

\* the k-th smallest element of a set of numbers
NthOf(S, k) == CHOOSE n \in S : Cardinality({j \in S : j <= n}) = k

\* C34: a text blob becomes one cue at offset 0, which gives a text without
\* time markers and hasTimecodes = false; a cue list becomes its cues of
\* non-blank text, in their order and with their offsets; a blob without text
\* and a list without a non-blank cue make fetchViaSupadata fail with
\* not-available instead of returning no cue.
C34_ContentNormalisation ==
    [][\A c \in Contents : NormalisedIn(c) =>
          /\ (c.type = "string" /\ HasText(c.text)) =>
                \E text \in {Trim(c.text)} :
                   /\ PrimaryReturned(<< [text |-> text, offset |-> 0, duration |-> 0] >>)
                   /\ ~buildRawText(tr'.items).hasTimecodes
                   /\ \A w \in Range(SplitWs(buildRawText(tr'.items).text)) :
                         ~IsMarker(w)
          /\ (c.type = "string" /\ ~HasText(c.text)) =>
                PrimaryThrew(TranscriptsNotAvailableError)
          /\ c.type = "array" =>
                LET kept == {k \in 1..Len(c.items) : HasText(c.items[k].text)}
                IN IF kept = {}
                   THEN PrimaryThrew(TranscriptsNotAvailableError)
                   ELSE PrimaryReturned(
                           [i \in 1..Cardinality(kept) |-> c.items[NthOf(kept, i)]])
          /\ tr'.status = "fulfilled" => tr'.items # <<>>]_vars

\* fetchViaSupadata returned the two cues that follow a blank cue in a list
C34_Witness ==
    /\ \E k \in CallsOf("fetchViaSupadata") : calls[k].outcome = "returned"
    /\ tr.status = "fulfilled"
    /\ Len(tr.items) = 2
    /\ tr.items[1].offset = 10000 /\ tr.items[2].offset = 59999

\* fetchViaSupadata returned the one cue of a text blob
C34_WitnessBlob ==
    /\ \E k \in CallsOf("fetchViaSupadata") : calls[k].outcome = "returned"
    /\ tr.status = "fulfilled"
    /\ tr.items = << Cue(<<"a", " ", "b", " ", "c">>, 0) >>

\* the priority class of a caption track, 1 the highest
TrackClass(t) ==
    IF t.languageCode = "en" /\ t.kind # "asr" THEN 1
    ELSE IF t.languageCode = "en" THEN 2
    ELSE IF t.kind # "asr" THEN 3
    ELSE 4

\* C35: the track picked is a usable track of the highest priority class that
\* has a usable track (manual English, any English, any manual, any), and
\* among the usable tracks of that class the first of the list.
C35_TrackPriority ==
    (fn.op = "pickTrack" /\ fn.out.err = NoErr) =>
        LET l      == fn.captionTracks
            usable == {k \in 1..Len(l) : ~l[k].xpe}
            picked == fn.out.track.baseUrl
        IN /\ picked \in usable
           /\ fn.out.track = l[picked]
           /\ \A k \in usable :
                 \/ TrackClass(l[picked]) < TrackClass(l[k])
                 \/ TrackClass(l[picked]) = TrackClass(l[k]) /\ picked <= k

\* an auto-generated English track, second of the list, is picked before the
\* manual track of another language that precedes it
C35_Witness ==
    /\ fn.op = "pickTrack" /\ fn.out.err = NoErr
    /\ Len(fn.captionTracks) = 3
    /\ TrackClass(fn.captionTracks[1]) = 3 /\ ~fn.captionTracks[1].xpe
    /\ TrackClass(fn.captionTracks[3]) = 2 /\ ~fn.captionTracks[3].xpe
    /\ TrackClass(fn.out.track) = 2 /\ fn.out.track.baseUrl = 2

\* the step is the one that AndroidPlayer takes on the reply
PlayerAnswered(reply) ==
    LET r == OnPlayer(tr, calls, Len(events), reply)
    IN tr.pc = "an_player" /\ tr' = r.tr /\ calls' = r.calls

\* the step is the one that AndroidWatch takes on the reply
WatchAnswered(reply) ==
    LET r == OnWatch(tr, calls, Len(events), reply)
    IN tr.pc = "an_watch" /\ tr' = r.tr /\ calls' = r.calls

\* fetchViaAndroid threw err in this step: no request of it follows
AndroidThrew(err) ==
    /\ tr'.pc = "none" /\ tr'.status = "rejected" /\ tr'.reason = err
    /\ \E k \in CallsOf("fetchViaAndroid") :
          /\ calls[k].endAt = -1
          /\ calls'[k].outcome = "threw" /\ calls'[k].err = err

Playable(reply) ==
    reply.kind = "res" /\ reply.ok /\ reply.status \in {"", "OK"}

\* C36: no track whose fetch URL carries the PO Token flag is fetched: a player
\* response whose tracks all carry it ends fetchViaAndroid with
\* PoTokenRequiredError, one without a track with TranscriptsDisabledError,
\* and any other has an unflagged track of its list fetched.
C36_FlaggedTracksDiscarded ==
    [][\A reply \in PlayerReplies : (Playable(reply) /\ PlayerAnswered(reply)) =>
          LET l == reply.captionTracks
          IN /\ l = <<>> => AndroidThrew(TranscriptsDisabledError)
             /\ (l # <<>> /\ \A k \in 1..Len(l) : l[k].xpe)
                   => AndroidThrew(PoTokenRequiredError)
             /\ (\E k \in 1..Len(l) : ~l[k].xpe)
                   => /\ tr'.pc = "an_xml"
                      /\ ~tr'.track.xpe
                      /\ tr'.track \in Range(l)]_vars

\* the caption document of an unflagged track is being fetched, the first
\* track of the list being flagged
C36_Witness ==
    /\ tr.pc = "an_xml"
    /\ tr.track = Track("de", "", FALSE)

\* the same on every track list of up to MaxTracks tracks
C36_PickDiscardsFlagged ==
    fn.op = "pickTrack" =>
        LET l == fn.captionTracks
        IN /\ l = <<>> <=> fn.out.err = TranscriptsDisabledError
           /\ (l # <<>> /\ \A k \in 1..Len(l) : l[k].xpe)
                 <=> fn.out.err = PoTokenRequiredError
           /\ fn.out.err = NoErr => ~fn.out.track.xpe /\ fn.out.track \in Range(l)

\* the player response, by its HTTP status and its playability status
PlayerClassified ==
    \A reply \in PlayerReplies : (reply.kind = "res" /\ PlayerAnswered(reply)) =>
       /\ ~reply.ok => AndroidThrew(VideoUnavailableError)
       /\ (reply.ok /\ ~Playable(reply) /\ reply.reasonBot)
             => AndroidThrew(IpBlockedError)
       /\ (reply.ok /\ ~Playable(reply) /\ ~reply.reasonBot)
             => AndroidThrew(VideoUnavailableError)

C37_StatusBeforeBody ==
    [][/\ \A reply \in WatchReplies : (reply.kind = "res" /\ WatchAnswered(reply)) =>
             /\ ~reply.ok => AndroidThrew(VideoUnavailableError)
             /\ (reply.ok /\ reply.recaptcha) => AndroidThrew(IpBlockedError)
             /\ (reply.ok /\ ~reply.recaptcha) => tr'.pc = "an_player"
       /\ PlayerClassified]_vars

\* the producer wrote a terminal event, as its last, and closed the stream
Ended ==
    /\ closed
    /\ events # <<>> /\ IsTerminal(events[Len(events)])
    /\ Cardinality({k \in 1..Len(events) : IsTerminal(events[k])}) = 1

\* C38: once a request is accepted and the stream is open, the producer
\* eventually writes a terminal event (done or error) as its last event and
\* closes the stream, provided every upstream call settles and the client does
\* not cancel.
C38_EventuallyTerminal == (response.kind = "stream") ~> Ended

\* the stream ended with done after the primary adapter had given up and the
\* fallback adapter had delivered the cues
C38_Witness ==
    /\ Ended /\ events[Len(events)] = EvDone
    /\ tr.primaryErr = TranscriptsNotAvailableError
    /\ \E k \in CallsOf("cleanChunk") : calls[k].outcome = "returned"

\* the events among the items of a stream, in their order
EventsOf(items) ==
    LET evs == SelectSeq(items, LAMBDA i : i.kind = "event")
    IN [k \in 1..Len(evs) |-> evs[k].event]

\* the number of bytes up to the end of the line of item k: the line of an
\* event ends at the first of the two line feeds of its frame
LineEnd(items, k) ==
    Len(Bytes(SubSeq(items, 1, k))) - (IF items[k].kind = "event" THEN 1 ELSE 0)

\* C39: however the stream is cut into reads, the page has handed to its
\* switch exactly the events whose line it has read to the end, once each and
\* in the order in which they were framed, and at the end of the stream all of
\* them; a line that is no event (no data prefix, no data, no JSON) adds
\* nothing.
C39_FramingRoundTrip ==
    fn.op = "wire" =>
        LET read     == Len(Bytes(fn.sent)) - Len(fn.rest)
            complete == SelectSeq([k \in 1..Len(fn.sent) |->
                                      [item |-> fn.sent[k],
                                       due  |-> LineEnd(fn.sent, k) <= read]],
                                  LAMBDA x : x.due /\ x.item.kind = "event")
        IN /\ fn.got = [k \in 1..Len(complete) |-> complete[k].item.event]
           /\ fn.rest = <<>> => fn.got = EventsOf(fn.sent)

\* a read ended inside the prefix of the second event, after the first, whose
\* message has a line feed, was handed over
C39_Witness ==
    /\ fn.op = "wire"
    /\ fn.buffer = <<"d", "a", "t">>
    /\ fn.got = << EvError(<<"a", "\n", "d">>) >>
    /\ Len(fn.sent) = 2 /\ fn.sent[2].kind = "event"

\* the stream ended with one event handed over, a line that is no event
\* having come before or after it
C39_WitnessOtherLine ==
    /\ fn.op = "wire" /\ fn.ended
    /\ Len(fn.got) = 1
    /\ \E k \in 1..Len(fn.sent) : fn.sent[k].kind = "other"

=============================================================================
